---- MODULE Spec2Model ----
(***************************************************************************)
(* Theo - Conversational PII Tracker.                                      *)
(*                                                                         *)
(* A model of the Flask request handlers of Theo/server.py together with   *)
(* the components they share: SessionManager (core/session_manager.py),    *)
(* ProfileBuilder (core/profile_builder.py) and the outcomes of            *)
(* InferenceEngine (core/inference_engine.py) and PIIAnalyzer              *)
(* (core/pii_analyzer.py).                                                 *)
(*                                                                         *)
(* Representation.                                                         *)
(*  - A Python str is a sequence of one-character strings, so that         *)
(*    lower(), strip(), sorted() and "|".join() are computed, not assumed. *)
(*  - identifiability_score is a float built from weight * min(u, 3) / 3;  *)
(*    the model keeps it exactly, as a number of thirds (ScoreScale).      *)
(*  - hashlib.md5 is taken as injective: the digest of a content string is *)
(*    the pair <<"md5", content>>.                                         *)
(*  - A PIIEntity is [text, entity_type, message_index]; its score, start, *)
(*    end and color are copied along by the code and read by none of the   *)
(*    operations modelled here.  A Message is [role, content,              *)
(*    pii_entities]; its timestamp is not modelled.                        *)
(*  - The handlers interleave statement by statement.  A call of            *)
(*    build_profile is one step: the interleavings inside its loop, which  *)
(*    add behaviours of the shared builder, are not modelled.              *)
(***************************************************************************)
EXTENDS Integers, Sequences, FiniteSets, TLC

VARIABLES
    sessions,   \* SessionManager._sessions: session id -> object ref, NoRef = absent
    heap,       \* the ConversationSession objects, by object ref
    builder,    \* ProfileBuilder.profile of the process-wide profile_builder
    available,  \* InferenceEngine.client is not None
    pc,         \* per worker thread: the handler statement it is at
    loc,        \* per worker thread: the handler's local variables
    requests,   \* the number of requests received so far
    resp,       \* the response a handler has just returned, NoResp otherwise
    call        \* the last direct call of build_profile: its argument and result

vars == <<sessions, heap, builder, available, pc, loc, requests, resp, call>>

None == "None"

----------------------------------------------------------------------------
(* Python str operations on sequences of characters.                       *)

\* ord(c) for the characters of the model's alphabet.
CodePoint(c) ==
    CASE c = " " -> 32
      [] c = "A" -> 65
      [] c = "B" -> 66
      [] c = "a" -> 97
      [] c = "b" -> 98
      [] c = "c" -> 99
      [] c = "d" -> 100
      [] c = "e" -> 101
      [] c = "f" -> 102
      [] c = "|" -> 124

IsSpace(c) == c = " "

LowerChar(c) ==
    CASE c = "A" -> "a"
      [] c = "B" -> "b"
      [] OTHER -> c

\* str.lower()
lower(s) == [i \in 1..Len(s) |-> LowerChar(s[i])]

RECURSIVE lstrip(_)
lstrip(s) ==
    IF s = <<>> THEN <<>>
    ELSE IF IsSpace(Head(s)) THEN lstrip(Tail(s)) ELSE s

RECURSIVE rstrip(_)
rstrip(s) ==
    IF s = <<>> THEN <<>>
    ELSE IF IsSpace(s[Len(s)]) THEN rstrip(SubSeq(s, 1, Len(s) - 1)) ELSE s

\* str.strip()
strip(s) == rstrip(lstrip(s))

\* s < t for Python str: lexicographic by code point, a proper prefix first.
RECURSIVE StrLess(_, _)
StrLess(s, t) ==
    IF t = <<>> THEN FALSE
    ELSE IF s = <<>> THEN TRUE
    ELSE IF CodePoint(Head(s)) < CodePoint(Head(t)) THEN TRUE
    ELSE IF CodePoint(Head(s)) > CodePoint(Head(t)) THEN FALSE
    ELSE StrLess(Tail(s), Tail(t))

\* sorted(S) for a set of str.
RECURSIVE sorted(_)
sorted(S) ==
    IF S = {} THEN <<>>
    ELSE LET m == CHOOSE x \in S : \A y \in S \ {x} : StrLess(x, y)
         IN  <<m>> \o sorted(S \ {m})

\* sep.join(parts)
RECURSIVE join(_, _)
join(sep, parts) ==
    IF parts = <<>> THEN <<>>
    ELSE IF Len(parts) = 1 THEN parts[1]
    ELSE parts[1] \o sep \o join(sep, Tail(parts))

----------------------------------------------------------------------------
(* core/profile_builder.py                                                 *)

\* The keys of CATEGORY_INFO, in dict (insertion) order.
CategoryOrder ==
    << "identity", "contact", "location", "temporal", "financial",
       "government_id", "health", "vehicle", "education", "employment",
       "relationships", "demographics" >>

Categories == {CategoryOrder[i] : i \in 1..Len(CategoryOrder)}

\* CATEGORY_INFO[cat]["name"]
CATEGORY_INFO(cat) ==
    CASE cat = "identity"      -> "Identity"
      [] cat = "contact"       -> "Contact Info"
      [] cat = "location"      -> "Location"
      [] cat = "temporal"      -> "Dates & Times"
      [] cat = "financial"     -> "Financial"
      [] cat = "government_id" -> "Government IDs"
      [] cat = "health"        -> "Health"
      [] cat = "vehicle"       -> "Vehicle"
      [] cat = "education"     -> "Education"
      [] cat = "employment"    -> "Employment"
      [] cat = "relationships" -> "Relationships"
      [] cat = "demographics"  -> "Demographics"

\* The keys of ENTITY_CATEGORIES that map to cat.
TypesOf(cat) ==
    CASE cat = "identity"      -> {"PERSON", "NRP"}
      [] cat = "contact"       -> {"PHONE_NUMBER", "EMAIL_ADDRESS", "URL", "IP_ADDRESS"}
      [] cat = "location"      -> {"LOCATION"}
      [] cat = "temporal"      -> {"DATE_TIME"}
      [] cat = "financial"     -> {"CREDIT_CARD", "IBAN_CODE", "IN_PAN",
                                   "US_BANK_NUMBER", "CRYPTO", "US_ITIN"}
      [] cat = "government_id" -> {"IN_AADHAAR", "IN_PASSPORT", "AU_ABN", "AU_ACN",
                                   "SG_NRIC_FIN", "AU_TFN", "UK_NINO", "US_SSN",
                                   "US_PASSPORT", "IN_VOTER", "US_DRIVER_LICENSE"}
      [] cat = "health"        -> {"UK_NHS", "AU_MEDICARE", "MEDICAL_LICENSE",
                                   "HEALTH_CONDITION", "MEDICAL_TERM"}
      [] cat = "vehicle"       -> {"IN_VEHICLE_REGISTRATION"}
      [] cat = "education"     -> {"EDUCATION_LEVEL", "SCHOOL_NAME"}
      [] cat = "employment"    -> {"OCCUPATION", "EMPLOYER"}
      [] cat = "relationships" -> {"RELATIONSHIP", "FAMILY_MEMBER"}
      [] cat = "demographics"  -> {"AGE", "AGE_GROUP"}

\* A lookup that gives an unmapped type no category of the profile.
DropUnmapped(entity_type, default) ==
    IF \E c \in Categories : entity_type \in TypesOf(c)
    THEN CHOOSE c \in Categories : entity_type \in TypesOf(c)
    ELSE "unmapped"

\* ENTITY_CATEGORIES.get(entity_type, default)
ENTITY_CATEGORIES_get(entity_type, default) ==
    IF \E c \in Categories : entity_type \in TypesOf(c)
    THEN CHOOSE c \in Categories : entity_type \in TypesOf(c)
    ELSE default

\* CategoryData(name, color, icon) with the default empty entities and unique_values.
CategoryData(name) == [name |-> name, entities |-> <<>>, unique_values |-> {}]

\* PIIProfile() right after _initialize_profile has filled in the categories.
EmptyProfile ==
    [categories |-> [c \in Categories |-> CategoryData(CATEGORY_INFO(c))],
     total_entities |-> 0,
     identifiability_score |-> 0]

\* A builder whose _initialize_profile keeps the profile of the previous call.
KeepProfile(prev) == prev

\* ProfileBuilder._initialize_profile: self.profile becomes a new, empty profile,
\* whatever it was (prev).
_initialize_profile(prev) == EmptyProfile

\* category = ENTITY_CATEGORIES.get(entity.entity_type, "identity")
CategoryOf(entity) == ENTITY_CATEGORIES_get(entity.entity_type, "identity")

\* The loop of build_profile, lines 173-185, told category by category: each
\* entity whose category is a key of profile.categories is appended to that
\* category's entities as a dict, and its lowercased and stripped text is added
\* to the category's unique_values.
AddEntities(profile, entities) ==
    LET tagged == [i \in 1..Len(entities) |->
                      [entity |-> entities[i], category |-> CategoryOf(entities[i])]]
    IN  [profile EXCEPT !.categories =
            [cat \in DOMAIN profile.categories |->
                LET mine == SelectSeq(tagged, LAMBDA x : x.category = cat)
                    old == profile.categories[cat]
                IN  [old EXCEPT
                       !.entities = old.entities \o
                           [i \in 1..Len(mine) |->
                               [text |-> mine[i].entity.text,
                                type |-> mine[i].entity.entity_type,
                                message_index |-> mine[i].entity.message_index]],
                       !.unique_values = old.unique_values \cup
                           {strip(lower(mine[i].entity.text)) : i \in 1..Len(mine)}]]]

\* The denominator of the per-category contribution weight * min(u, 3) / 3:
\* identifiability_score is kept as a number of thirds.
ScoreScale == 3

\* The cap on the unique values of a category that count.
DiminishingCap == 3

\* The weights dict of _calculate_identifiability; weights.get(cat_key, 1).
weights_get(cat_key) ==
    CASE cat_key = "identity"      -> 25
      [] cat_key = "government_id" -> 30
      [] cat_key = "contact"       -> 20
      [] cat_key = "location"      -> 15
      [] cat_key = "employment"    -> 10
      [] cat_key = "education"     -> 10
      [] cat_key = "health"        -> 5
      [] cat_key = "demographics"  -> 5
      [] cat_key = "financial"     -> 5
      [] cat_key = "relationships" -> 3
      [] cat_key = "temporal"      -> 2
      [] cat_key = "vehicle"       -> 2
      [] OTHER                     -> 1

Min(a, b) == IF a < b THEN a ELSE b

\* The final score with no clamp.
NoClamp(score) == score

\* min(100.0, score), in thirds.
Clamp(score) == Min(100 * ScoreScale, score)

\* The sum over the categories with every unique value counted.
RECURSIVE UncappedSum(_, _)
UncappedSum(profile, cats) ==
    IF cats = <<>> THEN 0
    ELSE weights_get(Head(cats))
            * Cardinality(profile.categories[Head(cats)].unique_values)
         + UncappedSum(profile, Tail(cats))

\* The loop over self.profile.categories.items(): the sum, in thirds, of
\* weight * min(unique_count, 3) / 3 over the categories with unique_count > 0.
RECURSIVE CategorySum(_, _)
CategorySum(profile, cats) ==
    IF cats = <<>> THEN 0
    ELSE LET unique_count == Cardinality(profile.categories[Head(cats)].unique_values)
             category_score ==
                 IF unique_count > 0
                 THEN weights_get(Head(cats)) * Min(unique_count, DiminishingCap)
                 ELSE 0
         IN  category_score + CategorySum(profile, Tail(cats))

\* A test that holds for a category with one unique value and no more.
HasExactlyOne(profile, cat) ==
    /\ cat \in DOMAIN profile.categories
    /\ Cardinality(profile.categories[cat].unique_values) = 1

\* len(self.profile.categories.get(cat, CategoryData("", "", "")).unique_values) > 0
HasCategory(profile, cat) ==
    /\ cat \in DOMAIN profile.categories
    /\ profile.categories[cat].unique_values # {}

\* Bonuses of which the first that applies excludes the others.
ExclusiveBonus(profile) ==
    IF HasCategory(profile, "location") /\ HasCategory(profile, "education")
    THEN 10 * ScoreScale
    ELSE IF HasCategory(profile, "location") /\ HasCategory(profile, "employment")
    THEN 10 * ScoreScale
    ELSE IF HasCategory(profile, "identity") /\ HasCategory(profile, "location")
    THEN 15 * ScoreScale
    ELSE 0

\* The three combination bonuses, in thirds.
BonusSum(profile) ==
    LET has_location   == HasCategory(profile, "location")
        has_education  == HasCategory(profile, "education")
        has_employment == HasCategory(profile, "employment")
        has_name       == HasCategory(profile, "identity")
    IN  (IF has_location /\ has_education  THEN 10 * ScoreScale ELSE 0)
      + (IF has_location /\ has_employment THEN 10 * ScoreScale ELSE 0)
      + (IF has_name /\ has_location       THEN 15 * ScoreScale ELSE 0)

\* ProfileBuilder._calculate_identifiability, in thirds.
_calculate_identifiability(profile) ==
    Clamp(CategorySum(profile, CategoryOrder) + BonusSum(profile))

\* ProfileBuilder.build_profile on a builder whose profile was prev: the value of
\* self.profile when it returns, which is also what it returns.
build_profile(prev, entities) ==
    LET filled == AddEntities(_initialize_profile(prev), entities)
        counted == [filled EXCEPT !.total_entities = Len(entities)]
    IN  [counted EXCEPT !.identifiability_score = _calculate_identifiability(counted)]

\* hashlib.md5(content.encode()).hexdigest(), taken as injective.
md5(content) == <<"md5", content>>

\* A fingerprint of the raw entities: the normalised text of every entity, in
\* the order and as often as the entities came.
RECURSIVE AllTexts(_, _)
AllTexts(profile, cats) ==
    IF cats = <<>> THEN <<>>
    ELSE LET entities == profile.categories[Head(cats)].entities
         IN  [i \in 1..Len(entities) |-> strip(lower(entities[i].text))]
                \o AllTexts(profile, Tail(cats))

RawTextHash(profile) == md5(join(<<"|">>, AllTexts(profile, CategoryOrder)))

\* all_values of get_profile_hash: sorted(unique_values) of each category, in the
\* order of self.profile.categories.
RECURSIVE AllValues(_, _)
AllValues(profile, cats) ==
    IF cats = <<>> THEN <<>>
    ELSE sorted(profile.categories[Head(cats)].unique_values)
            \o AllValues(profile, Tail(cats))

\* ProfileBuilder.get_profile_hash
get_profile_hash(profile) == md5(join(<<"|">>, AllValues(profile, CategoryOrder)))

\* context_parts of get_inference_context: one part per non-empty category, as
\* [name, values].  ", ".join(cat_data.unique_values) renders a Python set, whose
\* iteration order the code does not fix; the part keeps the set.
RECURSIVE ContextParts(_, _)
ContextParts(profile, cats) ==
    IF cats = <<>> THEN <<>>
    ELSE LET cat_data == profile.categories[Head(cats)]
             rest == ContextParts(profile, Tail(cats))
         IN  IF cat_data.unique_values # {}
             THEN <<[name |-> cat_data.name, values |-> cat_data.unique_values]>> \o rest
             ELSE rest

\* The str "No personal information detected yet.": a context with no parts.
NoInfoContext == [sentinel |-> TRUE, parts |-> <<>>]

\* ProfileBuilder.get_inference_context
get_inference_context(profile) ==
    LET context_parts == ContextParts(profile, CategoryOrder)
    IN  IF context_parts = <<>>
        THEN NoInfoContext
        ELSE [sentinel |-> FALSE, parts |-> context_parts]

\* The orders in which a set of str is iterated.  unique_values is a Python set:
\* its iteration order follows the hashes of the strings, which the code does
\* not fix and which change from one run of the interpreter to the next.  Two of
\* the orders stand for them all.
IterationOrders == {"ascending", "descending"}

\* reversed(s)
Reversed(s) == [i \in 1..Len(s) |-> s[Len(s) + 1 - i]]

\* list(cat_data.unique_values), under one iteration order.
list(S, order) == IF order = "ascending" THEN sorted(S) ELSE Reversed(sorted(S))

\* The values of a summary line: list(cat_data.unique_values)[:3].
FirstThree(S, order) == SubSeq(list(S, order), 1, Min(Cardinality(S), 3))

\* PIIProfile._generate_summary, under one iteration order: one line per
\* category with unique values, as [name, values, more], more being the N of
\* " (+N more)" and 0 for a line without it.
RECURSIVE SummaryLines(_, _, _)
SummaryLines(profile, cats, order) ==
    IF cats = <<>> THEN <<>>
    ELSE LET cat_data == profile.categories[Head(cats)]
             rest == SummaryLines(profile, Tail(cats), order)
         IN  IF cat_data.unique_values # {}
             THEN <<[name |-> CATEGORY_INFO(Head(cats)),
                     values |-> FirstThree(cat_data.unique_values, order),
                     more |-> IF Cardinality(cat_data.unique_values) > 3
                              THEN Cardinality(cat_data.unique_values) - 3
                              ELSE 0]>> \o rest
             ELSE rest

\* PIIProfile._generate_summary
_generate_summary(profile, order) == SummaryLines(profile, CategoryOrder, order)

----------------------------------------------------------------------------
(* core/session_manager.py                                                 *)

\* The session ids the clients hold in their cookies, in the order the clients
\* first use them.
SessionOrder == <<"s1", "s2">>
SessionIds == {SessionOrder[i] : i \in 1..Len(SessionOrder)}

\* The worker threads of the server, in the order a request is handed to the
\* idle ones.
ThreadOrder == <<"t1", "t2">>
Threads == {ThreadOrder[i] : i \in 1..Len(ThreadOrder)}

\* References to ConversationSession objects.  An object that neither the table
\* nor a handler's local variable refers to is garbage, and its slot is reused.
Refs == {"o1", "o2", "o3", "o4"}

NoRef == None

\* inference_cache_hash = None
NoHash == <<>>

\* ConversationSession(session_id=new_id)
ConversationSession(new_id) ==
    [session_id |-> new_id,
     messages |-> <<>>,
     last_inference |-> None,
     inference_cache_hash |-> NoHash]

\* A slot of the heap that holds no object.
FreeSlot == ConversationSession(None)

\* Message(role, content, timestamp, pii_entities)
Message(role, content, pii_entities) ==
    [role |-> role, content |-> content, pii_entities |-> pii_entities]

\* The objects something still refers to.
Live(tbl, locals) ==
    ({tbl[sid] : sid \in SessionIds} \cup {locals[t].conv_session : t \in Threads})
        \ {NoRef}

\* The heap with the slots of the garbage objects freed.
Collect(hp, tbl, locals) ==
    [r \in Refs |-> IF r \in Live(tbl, locals) THEN hp[r] ELSE FreeSlot]

\* SessionManager.get_session: self._sessions.get(session_id)
get_session(tbl, session_id) == tbl[session_id]

\* A copy that keeps the message_index the stored entity carries.
KeepStoredIndex(message, idx) == message.pii_entities

\* The entities of one message, each copied with message_index = idx.
EntityCopies(message, idx) ==
    [i \in 1..Len(message.pii_entities) |->
        [text |-> message.pii_entities[i].text,
         entity_type |-> message.pii_entities[i].entity_type,
         message_index |-> idx]]

\* A flattening that reads the last message alone.
LastMessageOnly(messages, idx) ==
    IF messages = <<>> THEN <<>>
    ELSE EntityCopies(messages[Len(messages)], Len(messages) - 1)

\* The loop of get_all_pii_entities over enumerate(session.messages), from the
\* message at position idx (zero-based) on.
RECURSIVE AllEntitiesFrom(_, _)
AllEntitiesFrom(messages, idx) ==
    IF idx >= Len(messages) THEN <<>>
    ELSE EntityCopies(messages[idx + 1], idx) \o AllEntitiesFrom(messages, idx + 1)

\* SessionManager.get_all_pii_entities
get_all_pii_entities(tbl, hp, session_id) ==
    LET session == get_session(tbl, session_id)
    IN  IF session = NoRef THEN <<>> ELSE AllEntitiesFrom(hp[session].messages, 0)

\* SessionManager.get_message_count
get_message_count(tbl, hp, session_id) ==
    LET session == get_session(tbl, session_id)
    IN  IF session = NoRef THEN 0 ELSE Len(hp[session].messages)

\* An update_inference that stores the hash and leaves the inference.
UpdateHashOnly(tbl, hp, session_id, inference, cache_hash) ==
    LET session == get_session(tbl, session_id)
    IN  IF session # NoRef
        THEN [hp EXCEPT ![session].inference_cache_hash = cache_hash]
        ELSE hp

\* SessionManager.update_inference: the heap after it.
update_inference(tbl, hp, session_id, inference, cache_hash) ==
    LET session == get_session(tbl, session_id)
    IN  IF session # NoRef
        THEN [hp EXCEPT ![session].last_inference = inference,
                        ![session].inference_cache_hash = cache_hash]
        ELSE hp

\* A reset_session that empties the table.
ResetClearsTable(tbl, session_id) == [sid \in DOMAIN tbl |-> NoRef]

\* A reset_session that deletes nothing.
ResetKeepsSession(tbl, session_id) == tbl

\* SessionManager.reset_session: the table after it.
reset_session(tbl, session_id) ==
    IF tbl[session_id] # NoRef THEN [tbl EXCEPT ![session_id] = NoRef] ELSE tbl

\* An add_message that puts the message in front of those stored.
PrependMessage(hp, session, message) ==
    [hp EXCEPT ![session].messages = <<message>> \o @]

\* session.messages.append(message) in SessionManager.add_message.
AppendMessage(hp, session, message) ==
    [hp EXCEPT ![session].messages = Append(@, message)]

\* An add_message that leaves the cached hash in place.
KeepCache(hp, session) == hp

\* session.inference_cache_hash = None in SessionManager.add_message.
InvalidateCache(hp, session) ==
    [hp EXCEPT ![session].inference_cache_hash = NoHash]

----------------------------------------------------------------------------
(* What the clients and the external collaborators can send and answer.    *)

\* The number of requests the clients send in one run, and in one run of the
\* threaded server.
MaxRequests == 4
MaxRacing == 3

\* The request bodies of POST /message: content before strip(), and role.
RequestContents == {<<>>, <<" ">>, <<" ", "h">>}
RequestRoles == {"user", "system"}

\* What PIIAnalyzer.analyze can return for a message: the (text, entity_type)
\* of the entities at or above the confidence threshold.
DetectResults ==
    { <<>>,
      <<[text |-> <<"A">>, entity_type |-> "PERSON"]>> }

\* What the chat completion can return as message.content.
CompletionTexts == {"e1", ""}

\* The canned answers of InferenceEngine and of POST /infer.
CannedNoInfo == "No personal information has been detected yet. Share some messages to see what can be inferred."
CannedQuickNoInfo == "No personal information detected yet."
CannedQuickUnable == "Unable to generate inference at this time."
CannedNoMessages == "No messages in the conversation yet. Add some messages to see what can be inferred."

\* The outcome of a call that raised.
Raised == "raised"

\* InferenceEngine.generate_inference with a configured client: what it can
\* return, or Raised.
generate_inference(context) ==
    IF context.sentinel THEN {CannedNoInfo} ELSE CompletionTexts \cup {Raised}

\* InferenceEngine.generate_quick_inference with a configured client: what it can
\* return; a failed completion becomes a canned answer.
generate_quick_inference(context) ==
    IF context.sentinel THEN {CannedQuickNoInfo}
    ELSE CompletionTexts \cup {CannedQuickUnable}

\* PIIAnalyzer.analyze(text, message_index): the PIIEntity lists it can return.
analyze(text, message_index) ==
    { [i \in 1..Len(d) |-> [text |-> d[i].text,
                            entity_type |-> d[i].entity_type,
                            message_index |-> message_index]] : d \in DetectResults }

----------------------------------------------------------------------------
(* server.py: the request handlers.                                        *)

\* The local variables of a handler that is not running.  conv_session is the
\* session object the handler holds: conv_session of the handlers, which
\* add_message reads last at line 97, and then session of
\* SessionManager.add_message.
IdleLoc ==
    [sid |-> None,
     data |-> [content |-> <<>>, role |-> None],
     content |-> <<>>,
     role |-> None,
     ret |-> None,
     conv_session |-> NoRef,
     message_index |-> 0,
     pii_entities |-> <<>>,
     all_entities |-> <<>>,
     profile |-> EmptyProfile,
     current_hash |-> NoHash,
     context |-> NoInfoContext]

\* No response.
NoResp ==
    [thread |-> None,
     endpoint |-> None,
     sid |-> None,
     data |-> [content |-> <<>>, role |-> None],
     status |-> 0,
     error |-> None,
     message |-> Message(None, <<>>, <<>>),
     all_entities |-> <<>>,
     profile |-> EmptyProfile,
     message_count |-> 0,
     quick_inference |-> None,
     inference |-> None,
     profile_hash |-> NoHash,
     context |-> NoInfoContext,
     cached |-> FALSE,
     summary |-> <<>>]

\* The response of thread t's handler: the fields every response has.
Response(t, endpoint, status) ==
    [NoResp EXCEPT !.thread = t, !.endpoint = endpoint, !.sid = loc[t].sid,
                   !.data = loc[t].data, !.status = status]

\* No direct call of build_profile yet.  prior tells what the call before it on
\* the same builder was given: nothing ("fresh"), the same list ("same"), the
\* empty list ("empty") or another list ("other").
NoCall == [made |-> FALSE, prior |-> "fresh", entities |-> <<>>, profile |-> EmptyProfile]

Init ==
    /\ sessions = [sid \in SessionIds |-> NoRef]
    /\ heap = [r \in Refs |-> FreeSlot]
    /\ builder = EmptyProfile
    /\ available \in BOOLEAN
    /\ pc = [t \in Threads |-> "idle"]
    /\ loc = [t \in Threads |-> IdleLoc]
    /\ requests = 0
    /\ resp = NoResp
    /\ call = NoCall

\* The handler of thread t moves to statement p with locals l; the store becomes
\* (tbl, hp).
Goto(t, p, l, tbl, hp) ==
    /\ pc' = [pc EXCEPT ![t] = p]
    /\ loc' = [loc EXCEPT ![t] = l]
    /\ sessions' = tbl
    /\ heap' = Collect(hp, tbl, [loc EXCEPT ![t] = l])
    /\ resp' = NoResp

\* The handler of thread t returns response r; the store becomes (tbl, hp).
Respond(t, r, tbl, hp) ==
    /\ pc' = [pc EXCEPT ![t] = "idle"]
    /\ loc' = [loc EXCEPT ![t] = IdleLoc]
    /\ sessions' = tbl
    /\ heap' = Collect(hp, tbl, [loc EXCEPT ![t] = IdleLoc])
    /\ resp' = r

\* A request arrives and is handed to thread t, the first idle thread: one more
\* request.
Receive(t) ==
    /\ pc[t] = "idle"
    /\ \A i, j \in 1..Len(ThreadOrder) :
          ThreadOrder[j] = t /\ i < j => pc[ThreadOrder[i]] # "idle"
    /\ requests < MaxRequests
    /\ requests' = requests + 1

\* The session ids a request can carry: those used before, and the first of the
\* others.
KnownIds == {SessionOrder[i] : i \in 1..Min(requests + 1, Len(SessionOrder))}

\* A validation that checks the content and not the role.
ValidContentOnly(content, role) == content # <<>>

\* add_message: `if not content` and `if role not in ["user", "assistant"]`.
ValidMessage(content, role) == content # <<>> /\ role \in {"user", "assistant"}

\* SessionManager.get_or_create_session, line 78, called by the handler of
\* thread t with locals l and returning to statement ret: the session of a known
\* id is returned; an unknown id goes on to lines 81-83.
GetOrCreateCheck(t, l, ret) ==
    IF sessions[l.sid] # NoRef
    THEN Goto(t, ret, [l EXCEPT !.conv_session = sessions[l.sid]], sessions, heap)
    ELSE Goto(t, "goc_create", [l EXCEPT !.ret = ret], sessions, heap)

\* POST /message, add_message lines 85-96: the content is stripped; an empty
\* content or a role that is neither user nor assistant is rejected with 400;
\* else get_or_create_session looks the session id up.
MessageReceive(t) ==
    /\ Receive(t)
    /\ \E sid \in KnownIds, c \in RequestContents, r \in RequestRoles :
          LET l == [IdleLoc EXCEPT !.sid = sid, !.data = [content |-> c, role |-> r],
                                   !.content = strip(c), !.role = r]
          IN  IF ~ValidMessage(l.content, l.role)
              THEN /\ pc' = pc
                   /\ loc' = loc
                   /\ sessions' = sessions
                   /\ heap' = heap
                   /\ resp' = [NoResp EXCEPT
                                 !.thread = t, !.endpoint = "message", !.sid = sid,
                                 !.data = l.data, !.status = 400,
                                 !.error = IF l.content = <<>>
                                           THEN "Message content is required"
                                           ELSE "Role must be 'user' or 'assistant'"]
              ELSE GetOrCreateCheck(t, l, "msg_analyze")
    /\ UNCHANGED <<builder, available, call>>

\* SessionManager.get_or_create_session, lines 81-83: a new session is stored
\* under the id, over whatever the table holds there by now.
GetOrCreateStore(t) ==
    /\ pc[t] = "goc_create"
    /\ LET new == CHOOSE r \in Refs :
                      r \notin Live(sessions, [loc EXCEPT ![t].conv_session = NoRef])
       IN  Goto(t, loc[t].ret, [loc[t] EXCEPT !.conv_session = new],
                [sessions EXCEPT ![loc[t].sid] = new],
                [heap EXCEPT ![new] = ConversationSession(loc[t].sid)])
    /\ UNCHANGED <<builder, available, requests, call>>

\* add_message, lines 97-100: message_index = len(conv_session.messages), then
\* the detector answers.
MessageAnalyze(t) ==
    /\ pc[t] = "msg_analyze"
    /\ LET message_index == Len(heap[loc[t].conv_session].messages)
       IN  \E pii_entities \in analyze(loc[t].content, message_index) :
              Goto(t, "add_lookup",
                   [loc[t] EXCEPT !.message_index = message_index,
                                  !.pii_entities = pii_entities,
                                  !.conv_session = NoRef],
                   sessions, heap)
    /\ UNCHANGED <<builder, available, requests, call>>

\* A handler that stores the message with no entity when the detector raises,
\* and then ends the request with 500.
AnalyzeFailsRecorded(t) ==
    /\ pc[t] = "msg_analyze"
    /\ Respond(t, [Response(t, "message", 500) EXCEPT !.error = Raised], sessions,
               AppendMessage(heap, loc[t].conv_session,
                             Message(loc[t].role, loc[t].content, <<>>)))
    /\ UNCHANGED <<builder, available, requests, call>>

\* add_message, line 100: the detector raises; the request ends with 500.
MessageAnalyzeFails(t) ==
    /\ pc[t] = "msg_analyze"
    /\ Respond(t, [Response(t, "message", 500) EXCEPT !.error = Raised], sessions, heap)
    /\ UNCHANGED <<builder, available, requests, call>>

\* SessionManager.add_message, line 98: get_or_create_session again.
AddMessageLookup(t) ==
    /\ pc[t] = "add_lookup"
    /\ GetOrCreateCheck(t, loc[t], "add_append")
    /\ UNCHANGED <<builder, available, requests, call>>

\* SessionManager.add_message, lines 100-106: the message is appended to the
\* session get_or_create_session returned.
AddMessageAppend(t) ==
    /\ pc[t] = "add_append"
    /\ Goto(t, "add_invalidate", loc[t], sessions,
            AppendMessage(heap, loc[t].conv_session,
                          Message(loc[t].role, loc[t].content, loc[t].pii_entities)))
    /\ UNCHANGED <<builder, available, requests, call>>

\* SessionManager.add_message, line 109: the cached hash is dropped.
AddMessageInvalidate(t) ==
    /\ pc[t] = "add_invalidate"
    /\ Goto(t, "msg_entities", [loc[t] EXCEPT !.conv_session = NoRef], sessions,
            InvalidateCache(heap, loc[t].conv_session))
    /\ UNCHANGED <<builder, available, requests, call>>

\* add_message, line 111: all_entities = get_all_pii_entities(session_id).
MessageEntities(t) ==
    /\ pc[t] = "msg_entities"
    /\ Goto(t, "msg_build",
            [loc[t] EXCEPT !.all_entities = get_all_pii_entities(sessions, heap, loc[t].sid)],
            sessions, heap)
    /\ UNCHANGED <<builder, available, requests, call>>

\* add_message, line 112: profile = profile_builder.build_profile(all_entities).
MessageBuild(t) ==
    /\ pc[t] = "msg_build"
    /\ builder' = build_profile(builder, loc[t].all_entities)
    /\ Goto(t, "msg_quick", [loc[t] EXCEPT !.profile = builder'], sessions, heap)
    /\ UNCHANGED <<available, requests, call>>

\* add_message, lines 115-124: the quick inference from the builder's context,
\* and the response.
MessageQuick(t) ==
    /\ pc[t] = "msg_quick"
    /\ LET asked == available /\ Len(loc[t].all_entities) > 0
           context == IF asked THEN get_inference_context(builder) ELSE NoInfoContext
       IN  \E quick \in IF asked THEN generate_quick_inference(context) ELSE {None} :
              Respond(t, [Response(t, "message", 200) EXCEPT
                            !.message = Message(loc[t].role, loc[t].content,
                                                loc[t].pii_entities),
                            !.all_entities = loc[t].all_entities,
                            !.profile = loc[t].profile,
                            !.context = context,
                            !.quick_inference = quick],
                      sessions, heap)
    /\ UNCHANGED <<builder, available, requests, call>>

\* A GET /profile that reads through get_or_create_session: an unknown id gets
\* a session.
ProfileCreatesSession(t) ==
    /\ Receive(t)
    /\ \E sid \in KnownIds :
          LET new == CHOOSE r \in Refs : r \notin Live(sessions, loc)
              tbl == IF sessions[sid] # NoRef THEN sessions
                     ELSE [sessions EXCEPT ![sid] = new]
              hp == IF sessions[sid] # NoRef THEN heap
                    ELSE [heap EXCEPT ![new] = ConversationSession(sid)]
          IN  Goto(t, "prof_build",
                   [IdleLoc EXCEPT !.sid = sid,
                                   !.all_entities = get_all_pii_entities(tbl, hp, sid)],
                   tbl, hp)
    /\ UNCHANGED <<builder, available, call>>

\* GET /profile, get_profile lines 139-141.
ProfileReceive(t) ==
    /\ Receive(t)
    /\ \E sid \in KnownIds :
          Goto(t, "prof_build",
               [IdleLoc EXCEPT !.sid = sid,
                               !.all_entities = get_all_pii_entities(sessions, heap, sid)],
               sessions, heap)
    /\ UNCHANGED <<builder, available, call>>

\* get_profile, line 142.
ProfileBuild(t) ==
    /\ pc[t] = "prof_build"
    /\ builder' = build_profile(builder, loc[t].all_entities)
    /\ Goto(t, "prof_respond", [loc[t] EXCEPT !.profile = builder'], sessions, heap)
    /\ UNCHANGED <<available, requests, call>>

\* get_profile, lines 144-150.
ProfileRespond(t) ==
    /\ pc[t] = "prof_respond"
    /\ Respond(t, [Response(t, "profile", 200) EXCEPT
                     !.all_entities = loc[t].all_entities,
                     !.profile = loc[t].profile,
                     !.message_count = get_message_count(sessions, heap, loc[t].sid)],
               sessions, heap)
    /\ UNCHANGED <<builder, available, requests, call>>

\* POST /infer, generate_inference lines 190-202: 503 without a client; the
\* canned answer for no session or no messages.
InferReceive(t) ==
    /\ Receive(t)
    /\ \E sid \in KnownIds :
          LET conv_session == get_session(sessions, sid)
              r == [NoResp EXCEPT !.thread = t, !.endpoint = "infer", !.sid = sid]
          IN  IF ~available
              THEN Respond(t, [r EXCEPT !.status = 503,
                                        !.error = "OpenAI API key not configured."],
                           sessions, heap)
              ELSE IF conv_session = NoRef \/ Len(heap[conv_session].messages) = 0
              THEN Respond(t, [r EXCEPT !.status = 200, !.inference = CannedNoMessages],
                           sessions, heap)
              ELSE Goto(t, "inf_entities",
                        [IdleLoc EXCEPT !.sid = sid, !.conv_session = conv_session],
                        sessions, heap)
    /\ UNCHANGED <<builder, available, call>>

\* generate_inference, line 205.
InferEntities(t) ==
    /\ pc[t] = "inf_entities"
    /\ Goto(t, "inf_build",
            [loc[t] EXCEPT !.all_entities = get_all_pii_entities(sessions, heap, loc[t].sid)],
            sessions, heap)
    /\ UNCHANGED <<builder, available, requests, call>>

\* generate_inference, line 206.
InferBuild(t) ==
    /\ pc[t] = "inf_build"
    /\ builder' = build_profile(builder, loc[t].all_entities)
    /\ Goto(t, "inf_hash", [loc[t] EXCEPT !.profile = builder'], sessions, heap)
    /\ UNCHANGED <<available, requests, call>>

\* generate_inference, line 207: the hash of the builder's profile.
InferHash(t) ==
    /\ pc[t] = "inf_hash"
    /\ Goto(t, "inf_check", [loc[t] EXCEPT !.current_hash = get_profile_hash(builder)],
            sessions, heap)
    /\ UNCHANGED <<builder, available, requests, call>>

\* `x` as a condition, for an Optional[str].
Truthy(x) == x # None /\ x # ""

\* A cache check that compares no hash.
CacheHitAlways(session, current_hash) == Truthy(session.last_inference)

\* generate_inference, line 209.
CacheHit(session, current_hash) ==
    session.inference_cache_hash = current_hash /\ Truthy(session.last_inference)

\* generate_inference, lines 209-214: the cached inference is served.
InferCheck(t) ==
    /\ pc[t] = "inf_check"
    /\ LET conv_session == heap[loc[t].conv_session]
       IN  IF CacheHit(conv_session, loc[t].current_hash)
           THEN Respond(t, [Response(t, "infer", 200) EXCEPT
                              !.all_entities = loc[t].all_entities,
                              !.profile = loc[t].profile,
                              !.inference = conv_session.last_inference,
                              !.profile_hash = loc[t].current_hash,
                              !.cached = TRUE],
                        sessions, heap)
           ELSE Goto(t, "inf_context", loc[t], sessions, heap)
    /\ UNCHANGED <<builder, available, requests, call>>

\* generate_inference, line 217: the context of the builder's profile.
InferContext(t) ==
    /\ pc[t] = "inf_context"
    /\ Goto(t, "inf_generate", [loc[t] EXCEPT !.context = get_inference_context(builder)],
            sessions, heap)
    /\ UNCHANGED <<builder, available, requests, call>>

\* A failure path that stores the hash it computed.
FailureStoresHash(tbl, hp, session_id, cache_hash) ==
    LET session == get_session(tbl, session_id)
    IN  IF session # NoRef
        THEN [hp EXCEPT ![session].inference_cache_hash = cache_hash]
        ELSE hp

\* generate_inference, lines 229-231: the heap after the except branch, which
\* logs and stores nothing.
InferenceFailed(tbl, hp, session_id, cache_hash) == hp

\* generate_inference, lines 219-231: the engine answers and the answer is
\* stored with the hash, or the engine raises and the request ends with 500.
InferGenerate(t) ==
    /\ pc[t] = "inf_generate"
    /\ \E inference \in generate_inference(loc[t].context) :
          LET r == [Response(t, "infer", 200) EXCEPT
                      !.all_entities = loc[t].all_entities,
                      !.profile = loc[t].profile,
                      !.context = loc[t].context,
                      !.profile_hash = loc[t].current_hash]
          IN  IF inference = Raised
              THEN Respond(t, [r EXCEPT !.status = 500,
                                        !.error = "Failed to generate inference. Please try again."],
                           sessions,
                           InferenceFailed(sessions, heap, loc[t].sid, loc[t].current_hash))
              ELSE Respond(t, [r EXCEPT !.inference = inference],
                           sessions,
                           update_inference(sessions, heap, loc[t].sid, inference,
                                            loc[t].current_hash))
    /\ UNCHANGED <<builder, available, requests, call>>

\* POST /reset, reset_session (server.py) lines 242-248.
ResetReceive(t) ==
    /\ Receive(t)
    /\ \E sid \in KnownIds :
          Respond(t, [NoResp EXCEPT !.thread = t, !.endpoint = "reset", !.sid = sid,
                                    !.status = 200],
                  reset_session(sessions, sid), heap)
    /\ UNCHANGED <<builder, available, call>>

\* One statement of the handler thread t runs.
Step(t) ==
    \/ MessageReceive(t)
    \/ GetOrCreateStore(t)
    \/ MessageAnalyze(t)
    \/ MessageAnalyzeFails(t)
    \/ AddMessageLookup(t)
    \/ AddMessageAppend(t)
    \/ AddMessageInvalidate(t)
    \/ MessageEntities(t)
    \/ MessageBuild(t)
    \/ MessageQuick(t)
    \/ ProfileReceive(t)
    \/ ProfileBuild(t)
    \/ ProfileRespond(t)
    \/ InferReceive(t)
    \/ InferEntities(t)
    \/ InferBuild(t)
    \/ InferHash(t)
    \/ InferCheck(t)
    \/ InferContext(t)
    \/ InferGenerate(t)
    \/ ResetReceive(t)

\* The threaded server: the statements of the handlers interleave.
Next == \E t \in Threads : Step(t) /\ requests' <= MaxRacing

Spec == Init /\ [][Next]_vars

\* One request at a time: a handler runs from its request to its response with
\* every other thread idle.
SeqNext == \E t \in Threads : (\A u \in Threads \ {t} : pc[u] = "idle") /\ Step(t)

SeqSpec == Init /\ [][SeqNext]_vars

----------------------------------------------------------------------------
(* Properties of the session cache.                                        *)

\* The statements of POST /infer that follow the receipt of the request.
InferStatements ==
    {"inf_entities", "inf_build", "inf_hash", "inf_check", "inf_context", "inf_generate"}

\* The fingerprint of the profile of all the messages the session registered
\* under session_id holds in store (tbl, hp).
Fingerprint(tbl, hp, session_id) ==
    get_profile_hash(build_profile(EmptyProfile, get_all_pii_entities(tbl, hp, session_id)))

\* Thread t runs its statement at position p, and leaves it.
Runs(t, p) == pc[t] = p /\ pc'[t] # p

\* C1: after every add_message on a session, whatever the cache held before,
\* the session's inference_cache_hash is empty; an /infer that finds it empty
\* goes on to compute, whatever fingerprint it took, and answers cached = false;
\* and nothing but the storing step of an /infer that computed makes the hash
\* of a session non-empty again.
C1_AppendInvalidates ==
    [][\A t \in Threads :
          /\ Runs(t, "add_invalidate") =>
                /\ Len(heap'[loc[t].conv_session].messages) > 0
                /\ heap'[loc[t].conv_session].inference_cache_hash = NoHash
          /\ (Runs(t, "inf_check")
                /\ heap[loc[t].conv_session].inference_cache_hash = NoHash) =>
                /\ pc'[t] = "inf_context"
                /\ resp' = NoResp
          /\ (Runs(t, "inf_generate") /\ resp'.status = 200) => ~resp'.cached
          /\ \A r \in Refs :
                (/\ heap'[r].inference_cache_hash # NoHash
                 /\ heap'[r].inference_cache_hash # heap[r].inference_cache_hash) =>
                    \E u \in Threads :
                       /\ Runs(u, "inf_generate")
                       /\ resp'.status = 200
                       /\ ~resp'.cached
                       /\ sessions[loc[u].sid] = r]_vars

\* add_message has returned on a session that held a cached explanation: the
\* message it appended has no entities, so the fingerprint is that of before,
\* and the hash is empty.
C1_Witness ==
    \E t \in Threads :
       /\ pc[t] = "msg_entities"
       /\ sessions[loc[t].sid] # NoRef
       /\ LET session == heap[sessions[loc[t].sid]]
          IN  /\ Len(session.messages) = 2
              /\ session.messages[1].pii_entities # <<>>
              /\ session.messages[2].pii_entities = <<>>
              /\ session.last_inference = "e1"
              /\ session.inference_cache_hash = NoHash

\* The cache steps of /infer, absent being the values of last_inference that
\* count as no explanation: the check answers with the stored explanation and
\* cached = true exactly when the stored hash is the fingerprint of the current
\* profile and an explanation is there, and else goes on to the one call of the
\* engine, whose answer is stored with the fingerprint and returned with
\* cached = false.
CacheSteps(absent) ==
    \A t \in Threads :
       /\ Runs(t, "inf_check") =>
             LET session == heap[sessions[loc[t].sid]]
                 hit == /\ session.inference_cache_hash
                              = Fingerprint(sessions, heap, loc[t].sid)
                        /\ session.last_inference \notin absent
             IN  /\ heap' = heap
                 /\ IF hit
                    THEN /\ pc'[t] = "idle"
                         /\ resp'.thread = t
                         /\ resp'.status = 200
                         /\ resp'.cached
                         /\ resp'.inference = session.last_inference
                    ELSE /\ pc'[t] = "inf_context"
                         /\ resp' = NoResp
       /\ Runs(t, "inf_context") => pc'[t] = "inf_generate" /\ heap' = heap
       /\ Runs(t, "inf_generate") => pc'[t] = "idle" /\ resp'.thread = t
       /\ (Runs(t, "inf_generate") /\ resp'.status = 200) =>
             LET session == heap'[sessions'[loc[t].sid]]
             IN  /\ ~resp'.cached
                 /\ session.last_inference = resp'.inference
                 /\ session.inference_cache_hash
                       = Fingerprint(sessions', heap', loc[t].sid)
                 /\ resp'.profile_hash = session.inference_cache_hash

\* C2 as stated: /infer on a session with messages returns the stored
\* explanation with cached = true exactly when the fingerprint of the current
\* profile equals the stored hash and last_inference is present; in every other
\* case it calls the engine once, stores the answer and the fingerprint, and
\* returns cached = false.
C2_AsStated == [][CacheSteps({None})]_vars

\* C2, amended: as C2_AsStated, with "present" read as the code reads it: the
\* stored explanation is neither None nor the empty string (and the engine did
\* not raise).
C2_CacheHitOrCompute == [][CacheSteps({None, ""})]_vars

\* An /infer found the fingerprint it took stored on the session, with an empty
\* explanation, and went on to compute.
C2_Witness ==
    \E t \in Threads :
       /\ pc[t] = "inf_context"
       /\ sessions[loc[t].sid] # NoRef
       /\ LET session == heap[sessions[loc[t].sid]]
          IN  /\ session.last_inference = ""
              /\ session.inference_cache_hash = loc[t].current_hash
              /\ loc[t].current_hash = Fingerprint(sessions, heap, loc[t].sid)

\* C3: when InferenceEngine.generate_inference raises, the request ends with
\* the 500 failure response, and no statement of the /infer has changed the
\* session table or any session: last_inference and inference_cache_hash are
\* what they were before the call.
C3_FailureLeavesCache ==
    [][\A t \in Threads :
          (/\ pc[t] \in InferStatements
           /\ pc'[t] # pc[t]
           /\ ~(pc[t] = "inf_generate" /\ resp'.status = 200)) =>
              /\ sessions' = sessions
              /\ heap' = heap
              /\ pc[t] = "inf_generate" =>
                    /\ pc'[t] = "idle"
                    /\ resp'.thread = t
                    /\ resp'.status = 500
                    /\ resp'.error = "Failed to generate inference. Please try again."
                    /\ resp'.inference = None]_vars

\* The engine raised for a session that holds an explanation of an earlier
\* /infer and, a message having been appended since, no hash: both are as they
\* were.
C3_Witness ==
    /\ resp.endpoint = "infer"
    /\ resp.status = 500
    /\ sessions[resp.sid] # NoRef
    /\ heap[sessions[resp.sid]].last_inference = "e1"
    /\ heap[sessions[resp.sid]].inference_cache_hash = NoHash
    /\ Len(heap[sessions[resp.sid]].messages) = 2

----------------------------------------------------------------------------
(* Properties of the threaded server.                                      *)

\* C4: an /infer that stores a fingerprint it took from its own entities, on
\* the session it found under the id, stores the fingerprint of the profile of
\* every message the session holds at that moment: a fingerprint taken before a
\* concurrent append is not written after the append has cleared the hash.  (An
\* add_message that has appended and not yet cleared is left aside: its
\* clearing is still to come.)
C4_FingerprintCurrent ==
    [][\A t \in Threads :
          (/\ Runs(t, "inf_generate")
           /\ resp'.status = 200
           /\ sessions[loc[t].sid] = loc[t].conv_session
           /\ \A u \in Threads : pc[u] # "add_invalidate"
           /\ loc[t].current_hash
                 = get_profile_hash(build_profile(EmptyProfile, loc[t].all_entities))) =>
              heap'[sessions'[loc[t].sid]].inference_cache_hash
                 = Fingerprint(sessions', heap', loc[t].sid)]_vars

\* s is a prefix of t.
IsPrefix(s, t) == Len(s) <= Len(t) /\ SubSeq(t, 1, Len(s)) = s

\* C5: whatever add_message calls run at once, each appends its message, once,
\* to the session registered under its id, and no step but a reset takes a
\* message out of the session registered under an id.
C5_EveryMessageOnce ==
    [][/\ \A t \in Threads :
             (Runs(t, "add_append") /\ sessions[loc[t].sid] # NoRef) =>
                heap'[sessions'[loc[t].sid]].messages
                   = Append(heap[sessions[loc[t].sid]].messages,
                            Message(loc[t].role, loc[t].content, loc[t].pii_entities))
       /\ \A sid \in SessionIds :
             (sessions[sid] # NoRef /\ sessions'[sid] # NoRef) =>
                IsPrefix(heap[sessions[sid]].messages,
                         heap'[sessions'[sid]].messages)]_vars

\* C6: the profile, the fingerprint and the context of a response are those of
\* the entities of the request's own session.
C6_OwnSessionOnly ==
    LET own == build_profile(EmptyProfile, resp.all_entities)
    IN  /\ (resp.endpoint \in {"message", "profile", "infer"}
              /\ resp.status = 200 /\ resp.profile_hash # NoHash) =>
               resp.profile_hash = get_profile_hash(own)
        /\ (resp.endpoint = "message" /\ resp.quick_inference # None) =>
               resp.context = get_inference_context(own)
        /\ (resp.endpoint = "infer" /\ resp.profile_hash # NoHash /\ ~resp.cached) =>
               resp.context = get_inference_context(own)
        /\ (resp.endpoint \in {"message", "profile"} /\ resp.status = 200) =>
               resp.profile = own

----------------------------------------------------------------------------
(* Properties of reset and of validation.                                  *)

\* The reads of a session id: allEntities, the profile built from it, and the
\* message count, are those of an unknown session.
ReadsAsUnknown(tbl, hp, sid) ==
    LET all_entities == get_all_pii_entities(tbl, hp, sid)
        profile == build_profile(builder, all_entities)
    IN  /\ all_entities = <<>>
        /\ profile.identifiability_score = 0
        /\ profile.total_entities = 0
        /\ \A cat \in Categories :
              /\ profile.categories[cat].entities = <<>>
              /\ profile.categories[cat].unique_values = {}
        /\ get_message_count(tbl, hp, sid) = 0

\* C7: a reset leaves no session under the id, whatever the session held; while
\* no session is under an id, the reads for it are those of an unknown session,
\* and GET /profile answers so; and only get_or_create_session, called for that
\* id, puts a session under it again.
C7_ResetForgets ==
    /\ [][/\ resp'.endpoint = "reset" => sessions'[resp'.sid] = NoRef
          /\ \A sid \in SessionIds :
                (sessions[sid] = NoRef /\ sessions'[sid] # NoRef) =>
                    \E t \in Threads : Runs(t, "goc_create") /\ loc[t].sid = sid]_vars
    /\ [](\A sid \in SessionIds :
             sessions[sid] = NoRef => ReadsAsUnknown(sessions, heap, sid))
    /\ []((resp.endpoint = "profile" /\ sessions[resp.sid] = NoRef) =>
             /\ resp.all_entities = <<>>
             /\ resp.profile = EmptyProfile
             /\ resp.message_count = 0)

\* A reset has just deleted the last session there was, after a profile with a
\* value in it was built.
C7_Witness ==
    /\ resp.endpoint = "reset"
    /\ \A sid \in SessionIds : sessions[sid] = NoRef
    /\ requests > 1
    /\ builder.categories["identity"].unique_values # {}
    /\ ReadsAsUnknown(sessions, heap, resp.sid)

\* The body of a POST /message is not valid: the content is empty after
\* trimming, or the role is neither user nor assistant.
Rejected(data) ==
    strip(data.content) = <<>> \/ data.role \notin {"user", "assistant"}

\* C8: a POST /message with an empty content (after trimming) or a role that is
\* neither user nor assistant is answered 400 at once, with the session table,
\* every session and every handler as they were; no handler of add_message
\* starts on such a body.
C8_RejectedBeforeState ==
    [][/\ \A t \in Threads :
             (pc[t] = "idle" /\ pc'[t] # "idle" /\ loc'[t].role # None) =>
                ~Rejected(loc'[t].data)
       /\ (resp'.endpoint = "message" /\ requests' # requests) =>
             /\ Rejected(resp'.data)
             /\ resp'.status = 400
             /\ resp'.error # None
             /\ sessions' = sessions
             /\ heap' = heap
             /\ pc' = pc
             /\ loc' = loc]_vars

\* A message with a content and the role system was rejected while a session
\* held a message, an explanation and its hash.
C8_Witness ==
    /\ resp.endpoint = "message"
    /\ resp.status = 400
    /\ resp.data.role = "system"
    /\ strip(resp.data.content) # <<>>
    /\ sessions[resp.sid] # NoRef
    /\ Len(heap[sessions[resp.sid]].messages) = 1
    /\ heap[sessions[resp.sid]].last_inference = "e1"
    /\ heap[sessions[resp.sid]].inference_cache_hash # NoHash

----------------------------------------------------------------------------
(* ProfileBuilder called directly, one call after the other on one builder. *)

\* The longest entity list drawn from EntityPool, and the most unique values a
\* filled category gets.
MaxLen == 2
MaxUnique == 4

\* Entities with texts that normalise to the same and to different values, of
\* mapped types and of a type ENTITY_CATEGORIES does not map.
EntityPool ==
    { [text |-> <<"A">>, entity_type |-> "PERSON", message_index |-> 0],
      [text |-> <<" ", "a">>, entity_type |-> "NRP", message_index |-> 1],
      [text |-> <<"b", " ">>, entity_type |-> "LOCATION", message_index |-> 0],
      [text |-> <<"B">>, entity_type |-> "ORGANIZATION", message_index |-> 1] }

\* The entity lists of length at most n over EntityPool.
RECURSIVE ListsUpTo(_)
ListsUpTo(n) ==
    IF n = 0 THEN {<<>>}
    ELSE LET shorter == ListsUpTo(n - 1)
         IN  shorter \cup {Append(l, e) : l \in shorter, e \in EntityPool}

\* Texts with different normalised values.
FillTexts == << <<"a">>, <<"B">>, <<"c">>, <<"d">>, <<"e">>, <<"f">> >>

\* u entities of category cat, with u different values.
FillCategory(cat, u) ==
    [k \in 1..u |-> [text |-> FillTexts[k],
                     entity_type |-> CHOOSE ty \in TypesOf(cat) : TRUE,
                     message_index |-> k - 1]]

\* The list that gives u values to each category of cats that is in S.
RECURSIVE Fill(_, _, _)
Fill(cats, S, u) ==
    IF cats = <<>> THEN <<>>
    ELSE (IF Head(cats) \in S THEN FillCategory(Head(cats), u) ELSE <<>>)
            \o Fill(Tail(cats), S, u)

\* The categories the combination bonuses read, and the others.
BonusCategories == {"identity", "location", "education", "employment"}

\* The category sets that get filled: every set of bonus categories, alone and
\* with all the other categories.
FilledSets ==
    {S \cup R : S \in SUBSET BonusCategories, R \in {{}, Categories \ BonusCategories}}

\* The arguments of the direct calls.
BuildInputs ==
    ListsUpTo(MaxLen)
        \cup {Fill(CategoryOrder, S, u) : S \in FilledSets, u \in 1..MaxUnique}

\* profile_builder.build_profile(entities)
CallBuild(entities) ==
    /\ builder' = build_profile(builder, entities)
    /\ call' = [made |-> TRUE,
                prior |-> IF ~call.made THEN "fresh"
                          ELSE IF call.entities = entities THEN "same"
                          ELSE IF call.entities = <<>> THEN "empty"
                          ELSE "other",
                entities |-> entities,
                profile |-> builder']
    /\ resp' = NoResp
    /\ UNCHANGED <<sessions, heap, available, pc, loc, requests>>

\* profile.to_dict() on the profile the builder holds: the summary it carries.
CallToDict ==
    /\ call.made
    /\ \E order \in IterationOrders :
          resp' = [NoResp EXCEPT !.endpoint = "to_dict",
                                 !.profile = builder,
                                 !.summary = _generate_summary(builder, order)]
    /\ UNCHANGED <<sessions, heap, builder, available, pc, loc, requests, call>>

BuildNext == \E entities \in BuildInputs : CallBuild(entities)

BuildInit == Init /\ available

BuildSpec == BuildInit /\ [][BuildNext]_vars

----------------------------------------------------------------------------
(* Properties of ProfileBuilder.                                           *)

\* The unique values the entities of a list give category cat: the lowercased
\* and trimmed texts of the entities whose type maps to cat, identity taking the
\* unmapped types.
ValuesIn(entities, cat) ==
    {strip(lower(entities[i].text)) :
        i \in {j \in 1..Len(entities) : CategoryOf(entities[j]) = cat}}

\* The list puts at least 3 unique values in every category.
Saturates(entities) ==
    \A cat \in Categories : Cardinality(ValuesIn(entities, cat)) >= DiminishingCap

\* C9: the identifiability score build returns is within [0, 100] for every
\* entity list, is 0 for the empty list, and is exactly 100 for a list that puts
\* at least 3 unique values in every category.  (The score is in thirds.)
C9_ScoreBoundary ==
    call.made =>
        /\ call.profile.identifiability_score >= 0
        /\ call.profile.identifiability_score <= 100 * ScoreScale
        /\ call.entities = <<>> => call.profile.identifiability_score = 0
        /\ Saturates(call.entities) =>
              call.profile.identifiability_score = 100 * ScoreScale

\* A saturating list was built: its raw sum is 132 + 35, and the score is 100.
C9_Witness ==
    /\ call.made
    /\ Saturates(call.entities)
    /\ CategorySum(call.profile, CategoryOrder) + BonusSum(call.profile)
          = (132 + 35) * ScoreScale
    /\ call.profile.identifiability_score = 100 * ScoreScale

\* The parts of a result the claims compare: the unique values of each
\* category, the entity count and the score.
SameResult(p, q) ==
    /\ \A cat \in Categories :
          p.categories[cat].unique_values = q.categories[cat].unique_values
    /\ p.total_entities = q.total_entities
    /\ p.identifiability_score = q.identifiability_score

\* C10: build is deterministic and independent of the call history: whatever
\* calls the builder served before, build(E) yields the unique values, the
\* entity count and the score that build(E) yields on a fresh builder, and
\* build(E) called twice in a row yields the same result twice.
C10_HistoryIndependent ==
    /\ [](call.made =>
            SameResult(call.profile, build_profile(EmptyProfile, call.entities)))
    /\ [][(call.made /\ call'.made /\ call'.entities = call.entities)
            => SameResult(call'.profile, call.profile)]_vars

\* build ran on a builder that had just built another, non-empty list, and
\* returned a profile with a category left empty.
C10_Witness ==
    /\ call.made
    /\ call.prior = "other"
    /\ call.entities # <<>>
    /\ call.profile.categories["identity"].unique_values = {}
    /\ call.profile.categories["location"].unique_values # {}

\* The unique-value set of each category of a profile.
UniqueValues(profile) ==
    [cat \in Categories |-> profile.categories[cat].unique_values]

\* C11: two profiles whose per-category unique-value sets are identical have
\* the same fingerprint, whatever the order of the raw entities and however
\* often a normalised text is repeated: the profile just built against the
\* profile of every list over EntityPool, and against the profile built before
\* it.
C11_SameSetsSameFingerprint ==
    /\ [](call.made =>
            \A E \in ListsUpTo(MaxLen) :
               LET other == build_profile(EmptyProfile, E)
               IN  UniqueValues(other) = UniqueValues(builder) =>
                      get_profile_hash(other) = get_profile_hash(builder))
    /\ [][(call.made /\ call'.made /\ UniqueValues(builder') = UniqueValues(builder))
            => get_profile_hash(builder') = get_profile_hash(builder)]_vars

\* A list of two entities of different types and texts that normalise to one
\* value of one category was built after another list, and fingerprints as the
\* list of its first entity alone.
C11_Witness ==
    /\ call.made
    /\ call.prior = "other"
    /\ Len(call.entities) = 2
    /\ call.entities[1].text # call.entities[2].text
    /\ Cardinality(builder.categories["identity"].unique_values) = 1
    /\ Len(builder.categories["identity"].entities) = 2
    /\ get_profile_hash(builder)
          = get_profile_hash(build_profile(EmptyProfile, <<call.entities[1]>>))

\* C12: two profiles that differ in the unique-value set of at least one
\* category, the same value sitting in a different category included, have
\* different fingerprints (md5 taken as injective).
C12_DifferentSetsDifferentFingerprint ==
    call.made =>
        \A E \in BuildInputs :
           LET other == build_profile(EmptyProfile, E)
           IN  UniqueValues(other) # UniqueValues(builder) =>
                  get_profile_hash(other) # get_profile_hash(builder)

\* The list without its last entity.
Front(entities) == SubSeq(entities, 1, Len(entities) - 1)

\* Profile q has the unique values of profile p and, in category cat, which
\* holds 3 or more in p, at least one more.
AddsBeyondCap(p, q, cat) ==
    /\ Cardinality(p.categories[cat].unique_values) >= DiminishingCap
    /\ p.categories[cat].unique_values \subseteq q.categories[cat].unique_values
    /\ p.categories[cat].unique_values # q.categories[cat].unique_values
    /\ \A other \in Categories \ {cat} :
          p.categories[other].unique_values = q.categories[other].unique_values

\* C13: when a category already holds 3 or more unique values, a further unique
\* value in that category leaves the identifiability score unchanged: for the
\* list just built against the list without its last entity, and against the
\* list built before it.
C13_DiminishingReturns ==
    /\ [](call.made /\ call.entities # <<>> =>
            LET before == build_profile(EmptyProfile, Front(call.entities))
                cat == CategoryOf(call.entities[Len(call.entities)])
            IN  AddsBeyondCap(before, builder, cat) =>
                   builder.identifiability_score = before.identifiability_score)
    /\ [][(call.made /\ call'.made
             /\ \E cat \in Categories : AddsBeyondCap(builder, builder', cat))
            => builder'.identifiability_score = builder.identifiability_score]_vars

\* The last entity of the list just built gave its category a fourth unique
\* value; identity and location hold values, so a bonus is in the score, and
\* the score is below the clamp and that of the list without the entity.
C13_Witness ==
    /\ call.made
    /\ call.entities # <<>>
    /\ LET before == build_profile(EmptyProfile, Front(call.entities))
           cat == CategoryOf(call.entities[Len(call.entities)])
       IN  /\ AddsBeyondCap(before, builder, cat)
           /\ Cardinality(builder.categories[cat].unique_values) = DiminishingCap + 1
           /\ builder.categories["identity"].unique_values # {}
           /\ builder.categories["location"].unique_values # {}
           /\ builder.identifiability_score < 100 * ScoreScale
           /\ builder.identifiability_score = before.identifiability_score

\* The number of raw entities in the categories cats of a profile.
RECURSIVE EntityCount(_, _)
EntityCount(profile, cats) ==
    IF cats = <<>> THEN 0
    ELSE Len(profile.categories[Head(cats)].entities) + EntityCount(profile, Tail(cats))

\* The type is a key of the static table.
Mapped(entity_type) == \E c \in Categories : entity_type \in TypesOf(c)

\* The categories whose raw entity list holds the entity.
HoldersOf(profile, entity) ==
    {cat \in Categories :
        \E k \in 1..Len(profile.categories[cat].entities) :
           profile.categories[cat].entities[k]
              = [text |-> entity.text, type |-> entity.entity_type,
                 message_index |-> entity.message_index]}

\* C18: build places every input entity in exactly one category, that of its
\* type in the static table, and identity for a type the table lacks; the
\* lengths of the raw entity lists sum to total_entities, the number of input
\* entities; an entity of a type the table lacks gives identity its normalised
\* text, so that the score holds at least the weight of identity for one value.
C18_EveryEntityPlaced ==
    call.made =>
        /\ EntityCount(builder, CategoryOrder) = builder.total_entities
        /\ builder.total_entities = Len(call.entities)
        /\ \A i \in 1..Len(call.entities) :
              LET entity == call.entities[i]
              IN  /\ Cardinality(HoldersOf(builder, entity)) = 1
                  /\ \A cat \in HoldersOf(builder, entity) :
                        IF Mapped(entity.entity_type)
                        THEN entity.entity_type \in TypesOf(cat)
                        ELSE cat = "identity"
                  /\ ~Mapped(entity.entity_type) =>
                        /\ strip(lower(entity.text))
                              \in builder.categories["identity"].unique_values
                        /\ builder.identifiability_score
                              >= Min(100 * ScoreScale, weights_get("identity"))

\* A list of two entities was built, the first of a mapped type and the second
\* of a type the table lacks and with a text normalising to the first's: the
\* total is 2 and there is 1 unique value.
C18_Witness ==
    /\ call.made
    /\ Len(call.entities) = 2
    /\ Mapped(call.entities[1].entity_type)
    /\ call.entities[1].entity_type \in TypesOf("location")
    /\ ~Mapped(call.entities[2].entity_type)
    /\ builder.total_entities = 2
    /\ Len(builder.categories["identity"].entities) = 1
    /\ Len(builder.categories["location"].entities) = 1
    /\ builder.categories["identity"].unique_values
          = builder.categories["location"].unique_values

----------------------------------------------------------------------------
(* SessionManager called directly, one call after the other.               *)

\* The number of calls in one run.
MaxCalls == 4

\* The pii_entities a caller passes to add_message: PIIEntity lists with the
\* message_index the caller gave them, right or not.
StoredEntityLists ==
    { <<>>,
      <<[text |-> <<"A">>, entity_type |-> "PERSON", message_index |-> 1]>>,
      <<[text |-> <<"b", " ">>, entity_type |-> "LOCATION", message_index |-> 0],
        [text |-> <<"A">>, entity_type |-> "PERSON", message_index |-> 0]>> }

\* A get_or_create_session that stores a new session under the id whether the
\* table holds one or not.
AlwaysCreate(tbl, hp, session_id) ==
    LET new == CHOOSE r \in Refs : r \notin Live(tbl, loc) \cup {tbl[session_id]}
    IN  [tbl |-> [tbl EXCEPT ![session_id] = new],
         hp |-> [hp EXCEPT ![new] = ConversationSession(session_id)],
         session |-> new]

\* SessionManager.get_or_create_session as one call: the table, the heap and
\* the session returned.
get_or_create_session(tbl, hp, session_id) ==
    IF tbl[session_id] # NoRef
    THEN [tbl |-> tbl, hp |-> hp, session |-> tbl[session_id]]
    ELSE LET new == CHOOSE r \in Refs : r \notin Live(tbl, loc)
         IN  [tbl |-> [tbl EXCEPT ![session_id] = new],
              hp |-> [hp EXCEPT ![new] = ConversationSession(session_id)],
              session |-> new]

\* SessionManager.add_message as one call: the table and the heap after it.
\* Nothing in it reads the role but the Message constructor.
add_message(tbl, hp, session_id, role, content, pii_entities) ==
    LET got == get_or_create_session(tbl, hp, session_id)
        appended == AppendMessage(got.hp, got.session,
                                  Message(role, content, pii_entities))
    IN  [tbl |-> got.tbl, hp |-> InvalidateCache(appended, got.session)]

\* One more call, with result r and the store (tbl, hp) after it.
Called(r, tbl, hp) ==
    /\ requests < MaxCalls
    /\ requests' = requests + 1
    /\ sessions' = tbl
    /\ heap' = Collect(hp, tbl, loc)
    /\ resp' = r
    /\ UNCHANGED <<builder, available, pc, loc, call>>

\* session_manager.get_or_create_session(session_id): new_id is the id given,
\* or str(uuid.uuid4()) for no id, an id the table does not hold.
CallGetOrCreate ==
    \E session_id \in KnownIds \cup {None} :
       \E new_id \in IF session_id # None THEN {session_id}
                     ELSE {sid \in SessionIds : sessions[sid] = NoRef} :
          LET got == get_or_create_session(sessions, heap, new_id)
          IN  Called([NoResp EXCEPT !.endpoint = "get_or_create_session",
                                    !.sid = got.hp[got.session].session_id],
                     got.tbl, got.hp)

\* session_manager.add_message(session_id, role, content, pii_entities)
CallAddMessage ==
    \E sid \in KnownIds, role \in RequestRoles, pii_entities \in StoredEntityLists :
       LET content == <<"h">>
           after == add_message(sessions, heap, sid, role, content, pii_entities)
       IN  Called([NoResp EXCEPT !.endpoint = "add_message", !.sid = sid,
                                 !.data = [content |-> content, role |-> role],
                                 !.message = Message(role, content, pii_entities)],
                  after.tbl, after.hp)

\* session_manager.get_all_pii_entities(session_id)
CallGetAllEntities ==
    \E sid \in KnownIds :
       Called([NoResp EXCEPT !.endpoint = "get_all_pii_entities", !.sid = sid,
                             !.all_entities = get_all_pii_entities(sessions, heap, sid)],
              sessions, heap)

\* session_manager.get_message_count(session_id)
CallGetMessageCount ==
    \E sid \in KnownIds :
       Called([NoResp EXCEPT !.endpoint = "get_message_count", !.sid = sid,
                             !.message_count = get_message_count(sessions, heap, sid)],
              sessions, heap)

\* The (inference, cache_hash) a caller passes to update_inference: an
\* inference with the hash of the profile it was made from.
UpdatePairs == { <<"e1", md5(<<>>)>>, <<"e2", md5(<<"a">>)>> }

\* session_manager.update_inference(session_id, inference, cache_hash)
CallUpdateInference ==
    \E sid \in KnownIds, pair \in UpdatePairs :
       Called([NoResp EXCEPT !.endpoint = "update_inference", !.sid = sid,
                             !.inference = pair[1], !.profile_hash = pair[2]],
              sessions,
              update_inference(sessions, heap, sid, pair[1], pair[2]))

\* session_manager.reset_session(session_id)
CallResetSession ==
    \E sid \in KnownIds :
       Called([NoResp EXCEPT !.endpoint = "reset_session", !.sid = sid],
              reset_session(sessions, sid), heap)

StoreNext ==
    \/ CallGetOrCreate
    \/ CallAddMessage
    \/ CallGetAllEntities
    \/ CallGetMessageCount
    \/ CallUpdateInference
    \/ CallResetSession

StoreInit == Init /\ available

StoreSpec == StoreInit /\ [][StoreNext]_vars

----------------------------------------------------------------------------
(* Properties of SessionManager.                                           *)

\* The messages in the order f gives them.
Permuted(messages, f) == [i \in 1..Len(messages) |-> messages[f[i]]]

\* C14: for every order in which the messages of a session could have been
\* appended, the profile built from the session's allEntities has the same
\* per-category unique values, the same entity count and the same score as the
\* profile built from what get_all_pii_entities returned.
C14_OrderIndependent ==
    (resp.endpoint = "get_all_pii_entities" /\ sessions[resp.sid] # NoRef) =>
        LET messages == heap[sessions[resp.sid]].messages
            built == build_profile(EmptyProfile, resp.all_entities)
        IN  \A f \in Permutations(1..Len(messages)) :
               SameResult(build_profile(EmptyProfile,
                                        AllEntitiesFrom(Permuted(messages, f), 0)),
                          built)

\* A session holds three messages with three different entity lists; read in
\* the reverse order, its entities come with other message_index values and
\* give the same profile.
C14_Witness ==
    /\ resp.endpoint = "get_all_pii_entities"
    /\ sessions[resp.sid] # NoRef
    /\ LET messages == heap[sessions[resp.sid]].messages
           reversed == [i \in 1..Len(messages) |-> messages[Len(messages) + 1 - i]]
       IN  /\ Len(messages) = 3
           /\ Cardinality({messages[i].pii_entities : i \in 1..3}) = 3
           /\ AllEntitiesFrom(reversed, 0) # resp.all_entities
           /\ SameResult(build_profile(EmptyProfile, AllEntitiesFrom(reversed, 0)),
                         build_profile(EmptyProfile, resp.all_entities))
           /\ build_profile(EmptyProfile, resp.all_entities).identifiability_score > 0

\* The number of entities the messages before the k-th hold.
RECURSIVE Offset(_, _)
Offset(messages, k) ==
    IF k <= 1 THEN 0
    ELSE Offset(messages, k - 1) + Len(messages[k - 1].pii_entities)

\* C15: get_all_pii_entities returns the entities of all the messages of the
\* session in message order, and in stored order within a message, each with
\* message_index equal to the zero-based position of its message whatever the
\* stored entity carries; the indices returned never decrease; an id with no
\* session gives the empty list; and the call changes no session.
C15_FlattenedInOrder ==
    /\ [](resp.endpoint = "get_all_pii_entities" =>
            IF sessions[resp.sid] = NoRef
            THEN resp.all_entities = <<>>
            ELSE LET messages == heap[sessions[resp.sid]].messages
                     result == resp.all_entities
                 IN  /\ Len(result) = Offset(messages, Len(messages) + 1)
                     /\ \A k \in 1..Len(messages) :
                           \A j \in 1..Len(messages[k].pii_entities) :
                              LET stored == messages[k].pii_entities[j]
                              IN  result[Offset(messages, k) + j]
                                     = [text |-> stored.text,
                                        entity_type |-> stored.entity_type,
                                        message_index |-> k - 1]
                     /\ \A i, j \in 1..Len(result) :
                           i <= j => result[i].message_index <= result[j].message_index)
    /\ [][(resp'.endpoint = "get_all_pii_entities" /\ requests' # requests) =>
             (sessions' = sessions /\ heap' = heap)]_vars

\* The entities of a session of two messages were read: the stored entities
\* carry the index 1 in the first message and 0 in the second, and came back
\* with 0 and 1.
C15_Witness ==
    /\ resp.endpoint = "get_all_pii_entities"
    /\ sessions[resp.sid] # NoRef
    /\ LET messages == heap[sessions[resp.sid]].messages
       IN  /\ Len(messages) = 2
           /\ Len(messages[1].pii_entities) = 1
           /\ messages[1].pii_entities[1].message_index = 1
           /\ Len(messages[2].pii_entities) = 2
           /\ messages[2].pii_entities[1].message_index = 0
           /\ [i \in 1..3 |-> resp.all_entities[i].message_index] = <<0, 1, 1>>

\* C17: SessionManager.add_message fails when the role is neither user nor
\* assistant, and then leaves the session table and every session, messages and
\* cache fields, as they were.
C17_StoreRejectsRole ==
    [][(/\ resp'.endpoint = "add_message"
        /\ requests' # requests
        /\ resp'.data.role \notin {"user", "assistant"}) =>
           /\ resp'.error = Raised
           /\ sessions' = sessions
           /\ heap' = heap]_vars

\* C16: in every reachable state each stored entity's message_index is the
\* zero-based position of the message that holds it, also when two submissions
\* for the same session overlap.
C16_StoredIndexIsPosition ==
    \A sid \in SessionIds :
       sessions[sid] # NoRef =>
          LET messages == heap[sessions[sid]].messages
          IN  \A k \in 1..Len(messages) :
                 \A j \in 1..Len(messages[k].pii_entities) :
                    messages[k].pii_entities[j].message_index = k - 1

----------------------------------------------------------------------------
(* Reads of a session id that is not in the table.                         *)

\* Thread t is in the handler of GET /profile for an id with no session.
ReadsUnknown(t) ==
    /\ pc[t] \in {"prof_build", "prof_respond"}
    /\ sessions[loc[t].sid] = NoRef

\* C19: for an id with no session in the table, get_session returns no session,
\* get_all_pii_entities the empty list and get_message_count 0; GET /profile
\* for such an id answers 200 with no entity, score 0 and message count 0; and
\* no step of that GET /profile, from the request to the response, puts a
\* session under the id or changes the table or any session.
C19_UnknownReadsEmpty ==
    /\ [](\A sid \in SessionIds :
             sessions[sid] = NoRef =>
                /\ get_session(sessions, sid) = NoRef
                /\ get_all_pii_entities(sessions, heap, sid) = <<>>
                /\ get_message_count(sessions, heap, sid) = 0)
    /\ []((resp.endpoint = "profile" /\ sessions[resp.sid] = NoRef) =>
             /\ resp.status = 200
             /\ resp.error = None
             /\ resp.all_entities = <<>>
             /\ resp.profile.total_entities = 0
             /\ resp.profile.identifiability_score = 0
             /\ resp.message_count = 0)
    /\ [][\A t \in Threads :
             (\/ ReadsUnknown(t)
              \/ /\ pc[t] = "idle"
                 /\ pc'[t] = "prof_build"
                 /\ sessions[loc'[t].sid] = NoRef) =>
                /\ sessions' = sessions
                /\ heap' = heap
                /\ pc'[t] \in {"prof_build", "prof_respond", "idle"}]_vars

\* GET /profile has just answered for an id with no session, while another id
\* has a session that holds a message with an entity and a cached inference.
C19_Witness ==
    /\ resp.endpoint = "profile"
    /\ resp.status = 200
    /\ sessions[resp.sid] = NoRef
    /\ resp.message_count = 0
    /\ \E sid \in SessionIds \ {resp.sid} :
          /\ sessions[sid] # NoRef
          /\ get_all_pii_entities(sessions, heap, sid) # <<>>
          /\ heap[sessions[sid]].inference_cache_hash # NoHash

----------------------------------------------------------------------------
(* InferenceEngine called directly, with and without a client.             *)

\* The str "": a context that is not the sentinel and has no part.
EmptyContext == [sentinel |-> FALSE, parts |-> <<>>]

\* The pii_context a caller passes: the contexts of the profiles of the lists
\* of ListsUpTo(MaxLen), and the empty str.
EngineContexts ==
    {get_inference_context(build_profile(EmptyProfile, entities)) :
        entities \in ListsUpTo(MaxLen)} \cup {EmptyContext}

\* A test that knows the sentinel and not the empty str.
SentinelOnly(context) == context.sentinel

\* not pii_context or pii_context == "No personal information detected yet."
NothingDetected(context) == context.parts = <<>> \/ context.sentinel

\* What generate_quick_inference returns without a client.
QuickDisabled == "Configure OPENAI_API_KEY to enable AI-powered inference."

\* The exceptions generate_inference raises: without a client, and when the
\* completion failed.
ValueError == "ValueError: OpenAI API key not configured. Set OPENAI_API_KEY environment variable."
CompletionFailed == "Exception: Failed to generate inference"

\* The engine returns value to the caller: field is quick_inference or
\* inference, after the method that was called.
EngineReturns(t, endpoint, context, field, value) ==
    /\ pc' = [pc EXCEPT ![t] = "idle"]
    /\ loc' = [loc EXCEPT ![t] = IdleLoc]
    /\ resp' = [NoResp EXCEPT !.thread = t, !.endpoint = endpoint,
                              !.context = context, ![field] = value]

\* The engine goes on to statement p of the method.
EngineGoto(t, p, l) ==
    /\ pc' = [pc EXCEPT ![t] = p]
    /\ loc' = [loc EXCEPT ![t] = l]
    /\ resp' = NoResp

\* One more call of the engine, by thread t.
EngineCalled(t) ==
    /\ pc[t] = "idle"
    /\ t = ThreadOrder[1]
    /\ requests < MaxCalls
    /\ requests' = requests + 1

\* An except branch of generate_quick_inference that raises as the one of
\* generate_inference does.
QuickExceptRaises(t) ==
    /\ pc[t] = "quick_except"
    /\ EngineReturns(t, "generate_quick_inference", loc[t].context, "error",
                     CompletionFailed)
    /\ UNCHANGED <<sessions, heap, builder, available, requests, call>>

\* generate_quick_inference, up to the try: the answers without a client and
\* for no information.
QuickEnter(t) ==
    /\ EngineCalled(t)
    /\ \E context \in EngineContexts :
          IF ~available
          THEN EngineReturns(t, "generate_quick_inference", context,
                             "quick_inference", QuickDisabled)
          ELSE IF NothingDetected(context)
          THEN EngineReturns(t, "generate_quick_inference", context,
                             "quick_inference", CannedQuickNoInfo)
          ELSE EngineGoto(t, "quick_create", [IdleLoc EXCEPT !.context = context])
    /\ UNCHANGED <<sessions, heap, builder, available, call>>

\* self.client.chat.completions.create(...) in generate_quick_inference: it
\* returns a completion or raises.
QuickCreate(t) ==
    /\ pc[t] = "quick_create"
    /\ \/ \E text \in CompletionTexts :
             EngineGoto(t, "quick_return", [loc[t] EXCEPT !.ret = text])
       \/ EngineGoto(t, "quick_except", loc[t])
    /\ UNCHANGED <<sessions, heap, builder, available, requests, call>>

\* return response.choices[0].message.content in generate_quick_inference
QuickReturn(t) ==
    /\ pc[t] = "quick_return"
    /\ EngineReturns(t, "generate_quick_inference", loc[t].context,
                     "quick_inference", loc[t].ret)
    /\ UNCHANGED <<sessions, heap, builder, available, requests, call>>

\* except Exception: return "Unable to generate inference at this time."
QuickExcept(t) ==
    /\ pc[t] = "quick_except"
    /\ EngineReturns(t, "generate_quick_inference", loc[t].context,
                     "quick_inference", CannedQuickUnable)
    /\ UNCHANGED <<sessions, heap, builder, available, requests, call>>

\* generate_inference, up to the try: ValueError without a client, and the
\* answer for no information.
ExplainEnter(t) ==
    /\ EngineCalled(t)
    /\ \E context \in EngineContexts :
          IF ~available
          THEN EngineReturns(t, "generate_inference", context, "error", ValueError)
          ELSE IF NothingDetected(context)
          THEN EngineReturns(t, "generate_inference", context, "inference",
                             CannedNoInfo)
          ELSE EngineGoto(t, "explain_create", [IdleLoc EXCEPT !.context = context])
    /\ UNCHANGED <<sessions, heap, builder, available, call>>

\* self.client.chat.completions.create(...) in generate_inference: it returns a
\* completion or raises.
ExplainCreate(t) ==
    /\ pc[t] = "explain_create"
    /\ \/ \E text \in CompletionTexts :
             EngineGoto(t, "explain_return", [loc[t] EXCEPT !.ret = text])
       \/ EngineGoto(t, "explain_except", loc[t])
    /\ UNCHANGED <<sessions, heap, builder, available, requests, call>>

\* return response.choices[0].message.content in generate_inference
ExplainReturn(t) ==
    /\ pc[t] = "explain_return"
    /\ EngineReturns(t, "generate_inference", loc[t].context, "inference",
                     loc[t].ret)
    /\ UNCHANGED <<sessions, heap, builder, available, requests, call>>

\* except Exception as e: raise Exception(f"Failed to generate inference: ...")
ExplainExcept(t) ==
    /\ pc[t] = "explain_except"
    /\ EngineReturns(t, "generate_inference", loc[t].context, "error",
                     CompletionFailed)
    /\ UNCHANGED <<sessions, heap, builder, available, requests, call>>

EngineNext ==
    \E t \in Threads :
       \/ QuickEnter(t)
       \/ QuickCreate(t)
       \/ QuickReturn(t)
       \/ QuickExcept(t)
       \/ ExplainEnter(t)
       \/ ExplainCreate(t)
       \/ ExplainReturn(t)
       \/ ExplainExcept(t)

EngineSpec == Init /\ [][EngineNext]_vars

\* The engine has just answered a call of the method with a value, and not
\* raised.
Answered(method) ==
    /\ resp.endpoint = method
    /\ resp.error = None

\* The engine has just raised out of a call of the method.
RaisedFrom(method) ==
    /\ resp.endpoint = method
    /\ resp.error # None

\* C20: generate_quick_inference never raises: without a client it returns the
\* 'Configure OPENAI_API_KEY' message, which it returns in no other case, and
\* when the completion raised it returns the 'Unable to generate' message;
\* generate_inference raises without a client, and raises when the completion
\* raised.
C20_QuickNeverFailsExplainDoes ==
    /\ [](resp.endpoint = "generate_quick_inference" =>
             /\ Answered("generate_quick_inference")
             /\ resp.quick_inference # None
             /\ ~available <=> resp.quick_inference = QuickDisabled)
    /\ [][\A t \in Threads :
             pc[t] = "quick_except" =>
                /\ Answered("generate_quick_inference")'
                /\ resp'.quick_inference = CannedQuickUnable]_vars
    /\ [](resp.endpoint = "generate_inference" =>
             /\ ~available => RaisedFrom("generate_inference") /\ resp.inference = None
             /\ Answered("generate_inference") => resp.inference # None)
    /\ [][\A t \in Threads :
             pc[t] = "explain_except" =>
                /\ RaisedFrom("generate_inference")'
                /\ resp'.inference = None]_vars

\* Without a client, after an earlier call, generate_quick_inference has just
\* answered with the disabled message for a context that holds values.
C20_Witness ==
    /\ requests > 1
    /\ ~available
    /\ Answered("generate_quick_inference")
    /\ ~NothingDetected(resp.context)
    /\ resp.quick_inference = QuickDisabled

----------------------------------------------------------------------------
(* The context of a profile that holds nothing.                            *)

\* The context names no value: it is the sentinel or the empty str.
NoInformation(context) == context.parts = <<>>

\* Thread t is at or past the chat completion of a method of the engine.
AtCompletion(t) ==
    pc[t] \in {"quick_create", "quick_return", "quick_except",
               "explain_create", "explain_return", "explain_except"}

\* The context of a profile whose categories are all empty is the sentinel, and
\* no call with a context that names no value reaches the chat completion.
NeverAsksForNothing ==
    /\ [](\A entities \in ListsUpTo(MaxLen) :
             LET profile == build_profile(EmptyProfile, entities)
             IN  (\A cat \in Categories : profile.categories[cat].unique_values = {})
                    <=> get_inference_context(profile) = NoInfoContext)
    /\ [](\A t \in Threads : AtCompletion(t) => ~NoInformation(loc[t].context))

\* C21 as stated: every call of generate_inference and of
\* generate_quick_inference with a context that names no value returns a canned
\* message, whether the engine has a client or not.
C21_AsStated ==
    (resp.endpoint \in {"generate_inference", "generate_quick_inference"}
        /\ NoInformation(resp.context)) =>
       /\ resp.error = None
       /\ \/ resp.quick_inference \in {CannedQuickNoInfo, QuickDisabled}
          \/ resp.inference = CannedNoInfo

\* C21: the context of a profile with no non-empty category is the sentinel; no
\* call with the sentinel or the empty str reaches the chat completion; with
\* such a context generate_quick_inference returns a canned message, the one
\* for no information with a client and the one for no client without, and
\* generate_inference returns its canned message with a client and raises
\* ValueError without one.
C21_SentinelSkipsService ==
    /\ NeverAsksForNothing
    /\ []((resp.endpoint = "generate_quick_inference" /\ NoInformation(resp.context)) =>
             /\ resp.error = None
             /\ resp.quick_inference =
                   IF available THEN CannedQuickNoInfo ELSE QuickDisabled)
    /\ []((resp.endpoint = "generate_inference" /\ NoInformation(resp.context)) =>
             IF available
             THEN resp.error = None /\ resp.inference = CannedNoInfo
             ELSE resp.error = ValueError /\ resp.inference = None)

\* With a client, after an earlier call, generate_inference has just returned
\* its canned message for the sentinel.
C21_Witness ==
    /\ requests > 1
    /\ available
    /\ resp.endpoint = "generate_inference"
    /\ resp.context = NoInfoContext
    /\ resp.inference = CannedNoInfo

----------------------------------------------------------------------------
(* The score as a formula of the entity list.                              *)

\* The fixed weights of the categories.
FixedWeights ==
    [identity |-> 25, government_id |-> 30, contact |-> 20, location |-> 15,
     employment |-> 10, education |-> 10, health |-> 5, demographics |-> 5,
     financial |-> 5, relationships |-> 3, temporal |-> 2, vehicle |-> 2]

\* S, in thirds: the sum over the categories of cats that a list gives u > 0
\* unique values of weight * min(u, 3).
RECURSIVE WeightedSum(_, _)
WeightedSum(entities, cats) ==
    IF cats = <<>> THEN 0
    ELSE LET u == Cardinality(ValuesIn(entities, Head(cats)))
         IN  FixedWeights[Head(cats)] * (IF u < 3 THEN u ELSE 3)
                + WeightedSum(entities, Tail(cats))

\* The list gives category cat a value.
Populates(entities, cat) == ValuesIn(entities, cat) # {}

\* B, in thirds: each bonus on its own.
Bonuses(entities) ==
    3 * ( (IF Populates(entities, "location") /\ Populates(entities, "education")
           THEN 10 ELSE 0)
        + (IF Populates(entities, "location") /\ Populates(entities, "employment")
           THEN 10 ELSE 0)
        + (IF Populates(entities, "identity") /\ Populates(entities, "location")
           THEN 15 ELSE 0) )

\* C22: for every entity list, the score build returns is min(100, S + B), with
\* S the sum over the categories with u > 0 unique values of
\* weight * min(u, 3) / 3 under the fixed weights, and B the sum of the bonuses
\* 10 for location with education, 10 for location with employment and 15 for
\* identity with location.  (The score is in thirds; the weights cover every
\* category there is.)
C22_ScoreFormula ==
    /\ DOMAIN FixedWeights = Categories
    /\ call.made =>
          LET total == WeightedSum(call.entities, CategoryOrder) + Bonuses(call.entities)
          IN  call.profile.identifiability_score =
                 IF total < 300 THEN total ELSE 300

\* A list with a value for identity, location, education and employment was
\* built: the three bonuses apply and the score is below 100.
C22_Witness ==
    /\ call.made
    /\ \A cat \in BonusCategories : Populates(call.entities, cat)
    /\ Bonuses(call.entities) = 35 * 3
    /\ call.profile.identifiability_score < 300
    /\ call.profile.identifiability_score =
          WeightedSum(call.entities, CategoryOrder) + 35 * 3

----------------------------------------------------------------------------
(* The score as the conversation grows.                                    *)

\* The score of the profile built from a list.
ScoreOf(entities) == build_profile(EmptyProfile, entities).identifiability_score

\* The list with the entities of category cat left out: the conversation
\* without the message that disclosed them.
LeaveOut(entities, cat) == SelectSeq(entities, LAMBDA e : CategoryOf(e) # cat)

\* The categories a list gives a value.
Populated(entities) == {cat \in Categories : Populates(entities, cat)}

\* C23: the entities of a session after an append are those before it followed
\* by the new message's.  When a list is built after one it extends, its score
\* is not lower; no entity appended to a built list lowers the score; and a
\* list that populates identity, location and education, one message each,
\* scores strictly more than the list with any one of the three left out.
C23_ScoreMonotone ==
    /\ [][(call.made /\ call'.made /\ IsPrefix(call.entities, call'.entities)) =>
             call'.profile.identifiability_score >= call.profile.identifiability_score]_vars
    /\ [](call.made =>
             \A e \in EntityPool :
                ScoreOf(Append(call.entities, e)) >= call.profile.identifiability_score)
    /\ []((call.made /\ Populated(call.entities) = {"identity", "location", "education"}) =>
             \A cat \in Populated(call.entities) :
                call.profile.identifiability_score > ScoreOf(LeaveOut(call.entities, cat)))

\* After another list, a list of more than three entities that populates
\* identity, location and education was built: its score is below 100, and
\* leaving any of the three out loses a bonus.
C23_Witness ==
    /\ call.made
    /\ call.prior = "other"
    /\ Populated(call.entities) = {"identity", "location", "education"}
    /\ Len(call.entities) > 3
    /\ call.profile.identifiability_score < 300
    /\ \A cat \in Populated(call.entities) :
          BonusSum(build_profile(EmptyProfile, LeaveOut(call.entities, cat)))
             < BonusSum(call.profile)

----------------------------------------------------------------------------
(* The stored messages.                                                    *)

\* The messages of the session registered under an id in table tbl and heap hp.
MessagesOf(tbl, hp, sid) == hp[tbl[sid]].messages

\* Thread t appends to the session of id sid in this step.
Appends(t, sid) == Runs(t, "add_append") /\ loc[t].sid = sid

\* C24: between resets the messages of a session are append-only: the step of
\* add_message that appends adds exactly one message, the one it was given, at
\* the end and leaves those before it as they were; every other step of every
\* handler (the reads, build, /infer with its cache update, get_or_create)
\* leaves the messages of every session as they are; and only a reset of the id
\* takes a session with its messages out of the table.
C24_AppendOnly ==
    [][\A sid \in SessionIds :
          sessions[sid] # NoRef =>
             IF sessions'[sid] = NoRef
             THEN resp'.endpoint = "reset" /\ resp'.sid = sid
             ELSE IF \E t \in Threads : Appends(t, sid)
             THEN \E t \in Threads :
                     /\ Appends(t, sid)
                     /\ MessagesOf(sessions', heap', sid)
                          = MessagesOf(sessions, heap, sid)
                               \o <<Message(loc[t].role, loc[t].content, loc[t].pii_entities)>>
             ELSE MessagesOf(sessions', heap', sid) = MessagesOf(sessions, heap, sid)]_vars

\* An /infer has just computed and cached an explanation for a session that
\* holds two messages with different entities, the fourth request or a later one.
C24_Witness ==
    /\ resp.endpoint = "infer"
    /\ resp.status = 200
    /\ ~resp.cached
    /\ requests > 3
    /\ sessions[resp.sid] # NoRef
    /\ LET messages == MessagesOf(sessions, heap, resp.sid)
       IN  /\ Len(messages) = 2
           /\ messages[1].pii_entities # <<>>
           /\ messages[2].pii_entities = <<>>
           /\ heap[sessions[resp.sid]].inference_cache_hash # NoHash

----------------------------------------------------------------------------
(* get_or_create_session.                                                  *)

\* get_or_create_session returns in this step, with the session of id sid.
Returns(sid) == resp'.endpoint = "get_or_create_session" /\ resp'.sid = sid

\* C25: get_or_create_session returns a session registered under the id it
\* reports; when the table held one under that id, the table and every session,
\* with its messages and cache fields, are as before; else a session with that
\* id, no message, no inference and no hash is registered and every other id
\* keeps its session as it was.  In every reachable state the id a registered
\* session stores is the key it is registered under, and no session is
\* registered under two ids.
C25_GetOrCreate ==
    /\ [][\A sid \in SessionIds :
             Returns(sid) =>
                /\ sessions'[sid] # NoRef
                /\ IF sessions[sid] # NoRef
                   THEN sessions' = sessions /\ heap' = heap
                   ELSE /\ heap'[sessions'[sid]] = ConversationSession(sid)
                        /\ heap'[sessions'[sid]].messages = <<>>
                        /\ heap'[sessions'[sid]].last_inference = None
                        /\ heap'[sessions'[sid]].inference_cache_hash = NoHash
                        /\ \A other \in SessionIds \ {sid} :
                              /\ sessions'[other] = sessions[other]
                              /\ sessions[other] # NoRef =>
                                    heap'[sessions'[other]] = heap[sessions[other]]]_vars
    /\ [](\A sid \in SessionIds :
             sessions[sid] # NoRef =>
                /\ heap[sessions[sid]].session_id = sid
                /\ \A other \in SessionIds \ {sid} : sessions[other] # sessions[sid])

\* get_or_create_session has just returned the session of an id that holds a
\* message and a cached inference, while the other id has a session too.
C25_Witness ==
    /\ resp.endpoint = "get_or_create_session"
    /\ sessions[resp.sid] # NoRef
    /\ heap[sessions[resp.sid]].messages # <<>>
    /\ heap[sessions[resp.sid]].inference_cache_hash # NoHash
    /\ \E other \in SessionIds \ {resp.sid} :
          sessions[other] # NoRef /\ heap[sessions[other]].messages = <<>>

----------------------------------------------------------------------------
(* A failure of the detector.                                              *)

\* What the reads show of a session id: the message count, the entities and the
\* cache fields, which for an id with no session are those of an empty one.
ViewOf(tbl, hp, sid) ==
    [message_count |-> get_message_count(tbl, hp, sid),
     all_entities |-> get_all_pii_entities(tbl, hp, sid),
     last_inference |-> IF tbl[sid] = NoRef THEN None ELSE hp[tbl[sid]].last_inference,
     inference_cache_hash |->
        IF tbl[sid] = NoRef THEN NoHash ELSE hp[tbl[sid]].inference_cache_hash]

\* Thread t runs a statement of POST /message that comes before the detector
\* has answered.
BeforeDetection(t) ==
    \/ pc[t] = "idle" /\ pc'[t] \in {"goc_create", "msg_analyze"}
                      /\ loc'[t].ret \in {None, "msg_analyze"}
    \/ pc[t] = "goc_create" /\ loc[t].ret = "msg_analyze"
    \/ pc[t] = "msg_analyze" /\ pc'[t] = "idle"

\* C26: when the detector fails in a POST /message, the request ends with the
\* failure (500) and no message in the answer, and the step leaves the table
\* and every session as they are; and no statement of the handler before the
\* detector answers changes what the reads show of any session id (an unknown
\* id gets an empty session).  So the message count, the entities and the cache
\* fields are those from before the submission, and no message with zero
\* entities stands for it.
C26_DetectorFailure ==
    /\ [][\A t \in Threads :
             BeforeDetection(t) =>
                \A sid \in SessionIds :
                   ViewOf(sessions', heap', sid) = ViewOf(sessions, heap, sid)]_vars
    /\ [][\A t \in Threads :
             (pc[t] = "msg_analyze" /\ pc'[t] = "idle") =>
                /\ resp'.endpoint = "message"
                /\ resp'.status = 500
                /\ resp'.error = Raised
                /\ resp'.message = NoResp.message
                /\ sessions' = sessions
                /\ heap' = heap]_vars
    /\ []((resp.endpoint = "message" /\ resp.status = 200) => resp.error = None)

\* The detector has just failed in a POST /message for a session that holds a
\* message with an entity and a cached inference.
C26_Witness ==
    /\ resp.endpoint = "message"
    /\ resp.status = 500
    /\ resp.error = Raised
    /\ sessions[resp.sid] # NoRef
    /\ ViewOf(sessions, heap, resp.sid).message_count = 1
    /\ ViewOf(sessions, heap, resp.sid).all_entities # <<>>
    /\ ViewOf(sessions, heap, resp.sid).inference_cache_hash # NoHash

----------------------------------------------------------------------------
(* Isolation of the sessions in the store.                                 *)

\* The session registered under an id, with its messages, its last_inference
\* and its inference_cache_hash; nothing for an id with no session.
SessionOf(tbl, hp, sid) == IF tbl[sid] = NoRef THEN <<>> ELSE <<hp[tbl[sid]]>>

\* C27: a call of SessionManager for a session id (get_or_create_session,
\* add_message, update_inference, reset_session, get_all_pii_entities,
\* get_message_count) leaves every other id registered or not as it was, and
\* the messages, the last_inference and the inference_cache_hash of every
\* session of another id as they were.
C27_StoreIsolation ==
    [][\A sid \in SessionIds :
          (resp'.endpoint # None /\ resp'.sid = sid) =>
             \A other \in SessionIds \ {sid} :
                /\ sessions'[other] = sessions[other]
                /\ SessionOf(sessions', heap', other) = SessionOf(sessions, heap, other)]_vars

\* reset_session has just taken a session out of the table while the session
\* of another id holds a message and a cached inference.
C27_Witness ==
    /\ resp.endpoint = "reset_session"
    /\ sessions[resp.sid] = NoRef
    /\ requests > 3
    /\ \E other \in SessionIds \ {resp.sid} :
          /\ sessions[other] # NoRef
          /\ heap[sessions[other]].messages # <<>>
          /\ heap[sessions[other]].last_inference # None
          /\ heap[sessions[other]].inference_cache_hash # NoHash

----------------------------------------------------------------------------
(* The cached inference and its hash.                                      *)

\* The cache fields of the session registered under an id.
CacheOf(tbl, hp, sid) ==
    <<hp[tbl[sid]].last_inference, hp[tbl[sid]].inference_cache_hash>>

\* C28: in every reachable state a session with a non-empty
\* inference_cache_hash holds the last_inference that one update_inference
\* stored with that hash; update_inference on a registered id stores both at
\* once; add_message on a registered id empties the hash and leaves the
\* last_inference; and update_inference on an id with no session changes neither
\* the table nor any session.
C28_CachePair ==
    /\ [](\A sid \in SessionIds :
             (sessions[sid] # NoRef /\ heap[sessions[sid]].inference_cache_hash # NoHash) =>
                CacheOf(sessions, heap, sid) \in UpdatePairs)
    /\ [][\A sid \in SessionIds :
             (resp'.sid = sid /\ sessions[sid] # NoRef) =>
                /\ resp'.endpoint = "update_inference" =>
                      CacheOf(sessions', heap', sid) = <<resp'.inference, resp'.profile_hash>>
                /\ resp'.endpoint = "add_message" =>
                      CacheOf(sessions', heap', sid)
                         = <<heap[sessions[sid]].last_inference, NoHash>>]_vars
    /\ [][(resp'.endpoint = "update_inference" /\ sessions[resp'.sid] = NoRef) =>
             sessions' = sessions /\ heap' = heap]_vars

\* add_message has just emptied the hash of a session that holds two messages
\* and keeps the last_inference an update_inference stored between them.
C28_Witness ==
    /\ resp.endpoint = "add_message"
    /\ sessions[resp.sid] # NoRef
    /\ Len(heap[sessions[resp.sid]].messages) = 2
    /\ heap[sessions[resp.sid]].last_inference = "e2"
    /\ heap[sessions[resp.sid]].inference_cache_hash = NoHash

----------------------------------------------------------------------------
(* ProfileBuilder called directly, with the summary of its profile read.   *)

\* The arguments of build_profile: the short lists, and lists that give one
\* category or two up to MaxUnique values.
SummaryInputs ==
    ListsUpTo(MaxLen)
        \cup {Fill(CategoryOrder, S, u) :
                 S \in {{"identity"}, {"contact", "location"}}, u \in 1..MaxUnique}

SummaryNext ==
    \/ \E entities \in SummaryInputs : CallBuild(entities)
    \/ CallToDict

SummarySpec == BuildInit /\ [][SummaryNext]_vars

----------------------------------------------------------------------------
(* The summary of a profile.                                               *)

\* A sequence with every element after its first occurrence left out.
RECURSIVE FirstOccurrences(_)
FirstOccurrences(seq) ==
    IF seq = <<>> THEN <<>>
    ELSE LET front == FirstOccurrences(SubSeq(seq, 1, Len(seq) - 1))
             last == seq[Len(seq)]
         IN  IF \E i \in 1..Len(front) : front[i] = last THEN front
             ELSE Append(front, last)

\* The unique values of a category in the order build_profile added them.
InsertionOrder(cat_data) ==
    FirstOccurrences([i \in 1..Len(cat_data.entities) |->
                         strip(lower(cat_data.entities[i].text))])

\* The categories of a profile that have a unique value, in the order of the
\* profile.
NonEmptyCategories(profile) ==
    SelectSeq(CategoryOrder, LAMBDA cat : profile.categories[cat].unique_values # {})

\* The summary has a line per non-empty category, with min(u, 3) values of the
\* category's u and N = u - 3 more exactly when u > 3.
SummaryShape(summary, profile) ==
    LET cats == NonEmptyCategories(profile)
    IN  /\ Len(summary) = Len(cats)
        /\ \A k \in 1..Len(cats) :
              LET unique_values == profile.categories[cats[k]].unique_values
                  u == Cardinality(unique_values)
              IN  /\ summary[k].name = CATEGORY_INFO(cats[k])
                  /\ Len(summary[k].values) = Min(u, 3)
                  /\ \A i \in 1..Len(summary[k].values) :
                        summary[k].values[i] \in unique_values
                  /\ summary[k].more = IF u > 3 THEN u - 3 ELSE 0

\* C29: the summary of a profile has one line per non-empty category, listing
\* min(u, 3) of its u unique values and '(+N more)' with N = u - 3 exactly when
\* u > 3, and the values listed are the first three of the category's unique
\* values in insertion order.
C29_SummaryInInsertionOrder ==
    resp.endpoint = "to_dict" =>
       /\ SummaryShape(resp.summary, resp.profile)
       /\ LET cats == NonEmptyCategories(resp.profile)
          IN  \A k \in 1..Len(cats) :
                 LET inserted == InsertionOrder(resp.profile.categories[cats[k]])
                 IN  resp.summary[k].values
                        = SubSeq(inserted, 1, Min(Len(inserted), 3))

====
